---- MODULE Spec2Model ----
(***************************************************************************)
(* TadPole-OS mission runtime (server-rs).                                 *)
(*                                                                         *)
(* The model follows one mission run (AgentRunner::run) together with the  *)
(* oversight gate (submit_oversight, decide_oversight), the kill switch    *)
(* (kill_agents) and the agent routes, at the granularity of the shared    *)
(* DashMap operations: two map operations of one handler are two steps,    *)
(* because the server runs on the multi-threaded tokio runtime             *)
(* (main.rs:18) and HTTP handlers run concurrently with mission tasks.     *)
(*                                                                         *)
(* The specifications share the state and differ in the actions, requests  *)
(* and inputs they admit:                                                  *)
(*   Spec         the oversight gate: a plain task against decide and kill *)
(*   SpecRun      the life of a mission: any payload, provider outcome,    *)
(*                usage and call of the whole menu, against decide         *)
(*   SpecKill     the kill switch against the agent routes                 *)
(*   SpecValidate AgentRunner::validate_input as a pure function           *)
(*   SpecSwarm    chains of nested runs (spawn_subagent,                   *)
(*                issue_alpha_directive) and the swarm context table       *)
(*   SpecLimiter  one RateLimiter and its concurrent callers               *)
(*   SpecThrottle the provider calls of the runner, each with the limiter  *)
(*                it builds                                                *)
(*   SpecLedger   the oversight ledger over a long stream of decisions     *)
(*   SpecFinalize a turn without function calls, for any output text       *)
(*   SpecSkills   the CapabilitiesRegistry: save, delete, rebuild, lookup  *)
(*   SpecFs       the FilesystemAdapter on a workspace with symbolic links *)
(*   SpecAcquire  the callers of a RateLimiter while time goes on, under   *)
(*                fair scheduling                                          *)
(*   SpecSpawn    a turn of spawn_subagent calls                           *)
(*   SpecCaps     the registry with its workflows, and build_tools with    *)
(*                its cache of tool definitions                            *)
(*   SpecDecide   decide requests for any id, with the outcome of their    *)
(*                queue lookup, against a task and the kill switch         *)
(*                                                                         *)
(* Money is counted in micro-USD, so that every rate of rates.rs (USD per  *)
(* 1000 tokens) is a whole number; the token counts drawn are multiples of *)
(* 1000.  Database statements are taken to succeed (sqlx errors are not    *)
(* modelled).                                                              *)
(***************************************************************************)
EXTENDS Integers, Sequences, FiniteSets, TLC

\* ------------------------------------------------------------------------
\*  Bounds of the model
\* ------------------------------------------------------------------------

\* Largest number of function calls the provider returns in one turn.
MaxCalls == 2

\* Number of concurrent POST /oversight/:id/decide requests in flight.
MaxDeciders == 1

\* Number of POST /agents, /agents/:id/resume and /agents/:id/pause
\* requests served during one behaviour.
MaxRouteOps == 1

\* Longest lineage drawn for validate_input.
MaxLineage == 2

\* A small positive payload.budgetUsd, in micro-USD.
TinyBudget == 1000

\* Mission rows created in SpecSwarm.
MaxMissions == 5

\* Rows of table swarm_context in SpecSwarm.
MaxFindings == 2

\* Seconds that pass in SpecSwarm.
MaxTicks == 1

\* Callers of one rate limiter, and provider calls of one model.
MaxCallers == 2

\* Entries submitted and decided in SpecLedger; the decision is drawn for
\* the first MaxVaried of them and is "approved" for the rest.
MaxDecisions == 203

MaxVaried == 2

\* Longest output text drawn for finalize_run.
MaxTextLen == 3

\* The clock of the rate limiter runs in steps of TickSecs up to MaxTime.
TickSecs == 30

MaxTime == 120

\* ------------------------------------------------------------------------
\*  Program constants
\* ------------------------------------------------------------------------

MAX_TASK_LENGTH == 32768

MAX_SWARM_DEPTH == 5

LEDGER_CAP == 200

\* The fallback mission budget of run (1.0 USD), in micro-USD.
DEFAULT_BUDGET == 1000000

\* rate_limiter.rs: Duration::from_secs(60), the window and the permit timer.
WINDOW_SECS == 60

\* ------------------------------------------------------------------------
\*  Domains
\* ------------------------------------------------------------------------

\* Ids of the agents of the registry (registry.rs, get_mock_registry).
AgentIds == {"1", "2"}

\* An id no agent of the registry has (a lineage may name any string).
OtherAgentId == "general"

AgentStatuses == {"idle", "active", "thinking", "coding", "speaking"}

MissionStatuses == {"pending", "active", "completed", "failed", "paused"}

\* Tools whose handler calls submit_oversight / submit_capability_oversight.
GatedTools == {"delete_file", "archive_to_vault", "notify_discord",
               "complete_mission", "propose_capability"}

\* The function calls a provider turn is drawn from.
ToolMenu == GatedTools \cup {"fetch_url", "issue_alpha_directive"}

\* Handler slots of one turn; slot h also stands for the uuid of the
\* oversight entry handler h submits (one fresh uuid per submit call).
Handlers == 1..MaxCalls

\* Entry ids a decide request may name: 0 is an id never submitted.
EntryIds == 0..MaxCalls

Decisions == {"approved", "rejected", "other"}

Deciders == 1..MaxDeciders

Nothing == "none"

VARIABLES
    \* --- AppState (state.rs) ---
    oversight_queue,          \* set of pending entry ids
    oversight_resolvers,      \* set of entry ids with a registered Sender
    oversight_ledger,         \* sequence of decided entries, newest first
    auto_approve_safe_skills, \* AtomicBool
    agents,                   \* agent id -> [status, active_mission]
    \* --- oneshot channels ---
    chan,                     \* entry id -> state of its oneshot channel
    \* --- decide_oversight requests in flight ---
    dec,                      \* decider -> [pc, id, decision]
    \* --- kill_agents request in flight ---
    killPc,                   \* position of the kill handler
    pending_ids,              \* its snapshot of the queue keys
    killRemoved,              \* id whose queue entry was just removed
    killPre,                  \* ghost: what held when kill_agents began
    routeOps,                 \* number of agent-route requests served
    \* --- the mission run ---
    rpc,                      \* position of run
    agent_id,                 \* the agent run was called for
    payload,                  \* the TaskPayload
    mission,                  \* the mission_history row
    mission_logs,             \* the mission_logs rows of the mission
    usage,                    \* cumulative Option<TokenUsage> of the turn
    step_cost,                \* cost of the primary generation
    calls,                    \* function_calls of the turn
    hpc,                      \* handler -> position
    approvedBy,               \* ghost: handler -> decision delivered to it
    result,                   \* handler -> Option of what submit_oversight returned
    effects,                  \* handlers whose side effect has happened
    providerCalls,            \* number of provider calls made
    failedCall,               \* which provider call failed, if any
    retval,                   \* what run returned
    \* --- validate_input, as a pure function ---
    vIn,                      \* the input drawn
    vOut,                     \* the result
    \* --- nested runs and the swarm context table ---
    frames,                   \* the runs in flight, the root run first
    missions,                 \* number of mission rows created
    swarm_context,            \* rows of table swarm_context, in insertion order
    lastStart,                \* ghost: the last call of run and its outcome,
                              \* until a run returns
    swarmErr,                 \* the Err travelling up the nested runs
    \* --- RateLimiter (agent/rate_limiter.rs) ---
    time_now,                 \* the clock, in seconds
    limiter,                  \* limiter id -> the RateLimiter's fields
    callers,                  \* caller -> its acquire call and permit timer
    \* --- SpecLedger ---
    submitted,                \* number of uuids drawn for oversight entries
    \* --- the provider's answer ---
    output_text,              \* the text of the primary generation, which
                              \* finalize_run is called with when the turn
                              \* has no function call
    \* --- CapabilitiesRegistry (agent/capabilities.rs) ---
    skills,                   \* the keys of the DashMap skills
    skill_files,              \* skills_dir: file stem -> the name stored in
                              \* <stem>.json, or Nothing
    reload,                   \* the reload_all call in flight
    lastOp,                   \* ghost: the last save_skill or delete_skill,
                              \* and whether a rebuild has completed since
    observed,                 \* ghost: the last lookup and what it found
    \* --- FilesystemAdapter (adapter/filesystem.rs) ---
    fs_files,                 \* real path -> the content of the file there,
                              \* or Nothing
    fs_links,                 \* the names of the workspace that are symbolic
                              \* links to the path outside it
    fs_result,                \* the adapter's last call and what it returned
    \* --- the tool handlers of a turn, in detail ---
    spawned,                  \* handler -> what handle_spawn_subagent did
    decide_status,            \* the entry and the outcome of the last
                              \* queue lookup of decide_oversight
    \* --- the workflows of the registry and the tool definitions ---
    workflows,                \* CapabilitiesRegistry.workflows: its keys
    workflow_files,           \* workflows_dir: file stem -> is there a file
    tool_cache,               \* TOOL_CACHE: cache key -> GeminiTool
    tools_built               \* the last call of build_tools and its result

gateVars == <<oversight_queue, oversight_resolvers, oversight_ledger, chan>>
decVars == <<dec>>
killVars == <<killPc, pending_ids, killRemoved, killPre>>
agentVars == <<agents, routeOps>>
runVars == <<rpc, agent_id, payload, mission, mission_logs, usage, step_cost,
             calls, hpc, approvedBy, result, effects, providerCalls,
             failedCall, retval>>
valVars == <<vIn, vOut>>
swarmVars == <<frames, missions, swarm_context, lastStart, swarmErr>>

limVars == <<time_now, limiter, callers>>

ledVars == <<submitted>>

finVars == <<output_text>>

regVars == <<skills, skill_files, reload, lastOp, observed>>

fsVars == <<fs_files, fs_links, fs_result>>

\* The state of the components that are modelled on their own.
turnVars == <<spawned, decide_status>>

capVars == <<workflows, workflow_files, tool_cache, tools_built>>

libVars == <<limVars, ledVars, finVars, regVars, fsVars, turnVars, capVars>>

\* The state of the mission runtime.
coreVars == <<gateVars, decVars, killVars, agentVars,
              auto_approve_safe_skills, runVars, valVars, swarmVars>>

vars == <<coreVars, libVars>>

\* What the actions of the rate limiter leave alone.
notLimVars == <<coreVars, ledVars, finVars, regVars, fsVars, turnVars,
                capVars>>

\* What the actions of the capabilities registry leave alone.
notRegVars == <<coreVars, limVars, ledVars, finVars, fsVars, turnVars,
                capVars>>

\* What the workflows and the tool definitions leave alone.
notCapVars == <<coreVars, limVars, ledVars, finVars, fsVars, turnVars>>

\* What the actions of the filesystem adapter leave alone.
notFsVars == <<coreVars, limVars, ledVars, finVars, regVars, turnVars,
               capVars>>

\* What the handlers of a turn leave alone of the other components.
notTurnVars == <<limVars, ledVars, finVars, regVars, fsVars, capVars>>


\* ------------------------------------------------------------------------
\*  Option values
\* ------------------------------------------------------------------------

None == [some |-> FALSE]

Some(v) == [some |-> TRUE, v |-> v]

unwrap_or(o, d) == IF o.some THEN o.v ELSE d

\* ------------------------------------------------------------------------
\*  Pure functions of the runtime
\* ------------------------------------------------------------------------

\* rates.rs, MODEL_RATES: micro-USD per 1000 tokens, <<input, output>>.
MODEL_RATES ==
    [m \in {"gpt-4o", "gpt-4o-mini", "claude-3-5-sonnet", "claude-3-opus",
            "gemini-1.5-pro", "gemini-1.5-flash", "llama-3.3-70b-versatile",
            "mixtral-8x7b-32768"} |->
        CASE m = "gpt-4o"                  -> <<5000, 15000>>
          [] m = "gpt-4o-mini"             -> <<150, 600>>
          [] m = "claude-3-5-sonnet"       -> <<3000, 15000>>
          [] m = "claude-3-opus"           -> <<15000, 75000>>
          [] m = "gemini-1.5-pro"          -> <<1250, 3750>>
          [] m = "gemini-1.5-flash"        -> <<75, 300>>
          [] m = "llama-3.3-70b-versatile" -> <<590, 790>>
          [] m = "mixtral-8x7b-32768"      -> <<270, 270>>]

\* rates.rs, calculate_cost: unknown models pay the fallback rate.
calculate_cost(model_id, input_tokens, output_tokens) ==
    LET rate == IF model_id \in DOMAIN MODEL_RATES
                THEN MODEL_RATES[model_id]
                ELSE <<2000, 6000>>
    IN  (input_tokens \div 1000) * rate[1] + (output_tokens \div 1000) * rate[2]

\* The cost of an Option<TokenUsage>: the unwrap_or(0) of run and
\* finalize_run around calculate_cost.
usage_cost(model_id, u) ==
    calculate_cost(model_id,
                   IF u.some THEN u.v.input_tokens ELSE 0,
                   IF u.some THEN u.v.output_tokens ELSE 0)

\* AgentRunner::accumulate_usage
accumulate_usage(total, local) ==
    IF ~local.some THEN total
    ELSE IF total.some
         THEN Some([input_tokens  |-> total.v.input_tokens + local.v.input_tokens,
                    output_tokens |-> total.v.output_tokens + local.v.output_tokens,
                    total_tokens  |-> total.v.total_tokens + local.v.total_tokens])
         ELSE local

\* lineage.iter().any(|id| id == agent_id)
InLineage(a, lineage) == \E i \in 1..Len(lineage) : lineage[i] = a

\* A variant of the length test that also refuses the greatest length.
TooLong_at_limit(len) == len >= MAX_TASK_LENGTH

\* validate_input: payload.message.len() > MAX_TASK_LENGTH
TooLong(len) == len > MAX_TASK_LENGTH

\* A variant of the depth test that lets the limit itself pass.
DepthExceeded_above_limit(depth) == depth > MAX_SWARM_DEPTH

\* validate_input: depth >= MAX_SWARM_DEPTH
DepthExceeded(depth) == depth >= MAX_SWARM_DEPTH

\* A variant of validate_input that tests the depth before the lineage.
validate_input_depth_first(a, p) ==
    LET depth   == unwrap_or(p.swarm_depth, 0)
        lineage == unwrap_or(p.swarm_lineage, <<>>)
    IN  IF p.msg_len > MAX_TASK_LENGTH THEN "too long"
        ELSE IF depth >= MAX_SWARM_DEPTH THEN "depth limit"
        ELSE IF InLineage(a, lineage) THEN "CIRCULAR RECURSION"
        ELSE "ok"

\* AgentRunner::validate_input: the checks in the order of the code.
validate_input(a, p) ==
    LET depth   == unwrap_or(p.swarm_depth, 0)
        lineage == unwrap_or(p.swarm_lineage, <<>>)
    IN  IF TooLong(p.msg_len) THEN "too long"
        ELSE IF InLineage(a, lineage) THEN "CIRCULAR RECURSION"
        ELSE IF DepthExceeded(depth) THEN "depth limit"
        ELSE "ok"

\* run: mission_budget = payload.budget_usd, else the agent's budget if
\* positive, else 1.0.
mission_budget(p, agent_budget) ==
    IF p.budget_usd.some THEN p.budget_usd.v
    ELSE IF agent_budget > 0 THEN agent_budget ELSE DEFAULT_BUDGET

\* A variant of the UPDATE statement that subtracts the bound cost.
update_cost_subtracting(cost_usd, delta) == cost_usd - delta

\* mission.rs, update_mission: cost_usd = cost_usd + ?2.
update_cost(cost_usd, delta) == cost_usd + delta

\* mission.rs, update_mission
update_mission(m, status, cost_usd) ==
    [m EXCEPT !.status = status, !.cost_usd = update_cost(m.cost_usd, cost_usd)]

\* mission.rs, log_step: append-only.
log_step(logs, source, severity) ==
    Append(logs, [source |-> source, severity |-> severity])

\* mission.rs, log_step, with the text of the step kept (a message is
\* known by its length).
log_step_text(logs, source, text, severity) ==
    Append(logs, [source |-> source, severity |-> severity, text |-> text])

\* A variant of decide_oversight that approves every decision but "rejected".
Approved_unless_rejected(decision) == decision # "rejected"

\* decide_oversight: approved = (payload.decision == "approved")
Approved(decision) == decision = "approved"

\* kill_agents: resolver.send(false)
KillVerdict == FALSE

\* kill_agents: the statuses the loop halts.
Halts(status) == status \in {"active", "thinking", "coding", "speaking"}

\* oneshot::Sender::send: the value is stored unless the receiver is gone.
Send(c, v) == IF c = "open" THEN (IF v THEN "sent_true" ELSE "sent_false")
              ELSE c

\* A variant of the await that takes any delivered value as an approval.
AwaitResult_any_value(c) == c \in {"sent_true", "sent_false"}

\* submit_oversight: match rx.await { Ok(approved) => approved, Err(_) => false }
AwaitResult(c) == c = "sent_true"

\* char::is_alphanumeric, for the characters drawn.
is_alphanumeric(ch) == ch \in {"a", "b"}

\* save_skill, line 128: every character that is not alphanumeric, '_' or
\* '-' is replaced by '_'.
safe_name(name) ==
    [i \in 1..Len(name) |->
        IF ~is_alphanumeric(name[i]) /\ name[i] # "_" /\ name[i] # "-"
        THEN "_" ELSE name[i]]

\* reload_all, line 77: path.extension() == Some("json").  The file of
\* the empty stem is named ".json", which Path::extension takes for a
\* hidden file without extension.
has_json_extension(stem) == stem # <<>>

\* reload_all, lines 74-86: new_skills, keyed by the name stored in each
\* file.
load_skills(files) ==
    {files[f] : f \in {g \in DOMAIN files :
                         files[g] # Nothing /\ has_json_extension(g)}}

\* reload_all, line 92: path.extension() == Some("md"); ".md" has none.
has_md_extension(stem) == stem # <<>>

\* reload_all, lines 89-108: new_workflows, keyed by the stem of each file.
load_workflows(files) == {f \in DOMAIN files : files[f] /\ has_md_extension(f)}

\* resolve_agent_context, line 289: the skills a safe-mode run is
\* stripped of.
blacklisted_skills ==
    {"issue_alpha_directive", "spawn_subagent", "execute_bash", "write_file",
     "delete_file", "append_file", "deploy"}

\* build_tools, lines 388-435: the declarations that do not come from the
\* registry, by name.
core_declarations(safe_mode) ==
    (IF ~safe_mode THEN {"spawn_subagent"} ELSE {})
       \cup {"share_finding", "complete_mission", "propose_capability"}

\* build_tools, lines 388-460, without the cache: the core declarations
\* and, for every skill of ctx.skills the registry holds, its declaration.
build_tools_uncached(ctx_skills, safe_mode, registry) ==
    [core |-> core_declarations(safe_mode), skills |-> ctx_skills \cap registry]

\* char::is_whitespace, for the characters drawn.
is_whitespace(ch) == ch \in {" ", "\t", "\n", "\r"}

RECURSIVE trim_start(_)
\* str::trim_start
trim_start(t) ==
    IF t # <<>> /\ is_whitespace(Head(t)) THEN trim_start(Tail(t)) ELSE t

RECURSIVE trim_end(_)
\* str::trim_end
trim_end(t) ==
    IF t # <<>> /\ is_whitespace(t[Len(t)])
    THEN trim_end(SubSeq(t, 1, Len(t) - 1))
    ELSE t

\* str::trim
trim(t) == trim_end(trim_start(t))

RECURSIVE to_string(_)
\* The String of a sequence of characters.
to_string(t) == IF t = <<>> THEN "" ELSE Head(t) \o to_string(Tail(t))

FALLBACK_DELIVERY ==
    "(Agent completed its actions without a final conversational response.)"

\* A variant of the delivery that strips leading whitespace only.
final_delivery_trim_start(text) ==
    IF trim_start(text) = <<>> THEN FALLBACK_DELIVERY
    ELSE to_string(trim_start(text))

\* finalize_run, lines 1405-1409: the trimmed output, or the fallback
\* sentence when the trimmed output is empty.
final_delivery(text) ==
    IF trim(text) = <<>> THEN FALLBACK_DELIVERY ELSE to_string(trim(text))

\* A variant of the ledger insert without the truncate.
LedgerInsert_unbounded(ledger, e) == <<e>> \o ledger

\* decide_oversight: ledger.insert(0, entry); ledger.truncate(200)
LedgerInsert(ledger, e) ==
    LET l == <<e>> \o ledger
    IN  IF Len(l) > LEDGER_CAP THEN SubSeq(l, 1, LEDGER_CAP) ELSE l


\* ------------------------------------------------------------------------
\*  Initial state: AppState::new with the registry of registry.rs
\* ------------------------------------------------------------------------

\* registry.rs, get_mock_registry: agents "1" and "2".
MockRegistry ==
    [a \in AgentIds |->
        [status         |-> "active",
         active_mission |-> TRUE,
         model_id       |-> IF a = "1" THEN "gemini-pro-latest"
                                       ELSE "gemini-flash-latest",
         budget_usd     |-> IF a = "1" THEN 100000000 ELSE 50000000,
         cost_usd       |-> IF a = "1" THEN 120000 ELSE 1540000,
         tokens_used    |-> IF a = "1" THEN 1200 ELSE 15400]]

NoMission == [status |-> Nothing, budget_usd |-> 0, cost_usd |-> 0]

NoPayload == [msg_len |-> 0, swarm_depth |-> None, swarm_lineage |-> None,
              budget_usd |-> None]

NoReturn == [kind |-> Nothing, what |-> Nothing]

IdleDecider == [pc |-> "idle", id |-> 0, decision |-> Nothing]

NoKillPre == [started |-> {}, nonIdle |-> {}, routeOps |-> 0]

\* The callers of the rate limiter.
Callers == 1..MaxCallers

\* Limiter 0 is a RateLimiter its callers share; limiter c is the one that
\* call_provider builds for call c.
SharedLimiter == 0

LimiterIds == {SharedLimiter} \cup Callers

NoLimiter == [built |-> FALSE, rpm |-> None, tpm |-> None, permits |-> 0,
              tokens_used |-> 0, window_start |-> 0]

IdleCaller == [pc |-> "idle", via |-> Nothing, l |-> SharedLimiter, est |-> 0,
               wake |-> 0, at |-> 0, timer |-> Nothing, tokens |-> 0,
               rec_at |-> 0]

\* The skill names of the requests.
SkillNames == {<<>>, <<"a">>, <<"a", " ">>, <<"a", "_">>}

FileStems == {safe_name(n) : n \in SkillNames}

\* The names of the requests that meet the tool definitions.
CapNames == {<<"a", " ">>, <<"a", "_">>}

NoReload == [pc |-> "idle", pre |-> {}, new_skills |-> {}, todo |-> {},
             new_workflows |-> {}]

\* The skills of the agents that run, ctx.skills (none of the names drawn
\* holds a comma, so the sorted list joined by commas names the set), and
\* the keys of the cache: "{skills}:{safe_mode}".
CtxSkills == {{<<"a", "_">>}}

CacheKeys == [skills : CtxSkills, safe_mode : BOOLEAN]

\* A GeminiTool: the names of its declarations, those of build_tools
\* itself and those of the skills of the registry.
NoTools == [core |-> {}, skills |-> {}]

NotCached == [cached |-> FALSE, tools |-> NoTools]

NotBuilt == [key |-> [skills |-> {}, safe_mode |-> FALSE], tools |-> NoTools,
             uncached |-> NoTools]

NoOp == [op |-> Nothing, name |-> <<>>, rebuilt |-> FALSE]

\* The entries the workspace root may hold, and one path outside it.
WsNames == {"f", "l"}

OUTSIDE == "/outside"

RealPaths == WsNames \cup {OUTSIDE}

NoCall == [op |-> Nothing, path |-> <<>>, ok |-> FALSE, out |-> Nothing,
           acted |-> {}]

NotSpawned == [outcome |-> Nothing, intent |-> <<>>, child_usage |-> None,
               synthesis_usage |-> None, output |-> Nothing]

NoDecide == [id |-> 0, status |-> Nothing]

NoLookup == [name |-> <<>>, found |-> FALSE]

NoStart == [agent_id |-> Nothing, payload |-> NoPayload, by |-> Nothing,
            outcome |-> Nothing]

InitState ==
    /\ oversight_queue = {}
    /\ oversight_resolvers = {}
    /\ oversight_ledger = <<>>
    /\ auto_approve_safe_skills = TRUE
    /\ agents = MockRegistry
    /\ chan = [i \in Handlers |-> Nothing]
    /\ dec = [d \in Deciders |-> IdleDecider]
    /\ killPc = "idle"
    /\ pending_ids = {}
    /\ killRemoved = 0
    /\ killPre = NoKillPre
    /\ routeOps = 0
    /\ rpc = "idle"
    /\ agent_id = Nothing
    /\ payload = NoPayload
    /\ mission = NoMission
    /\ mission_logs = <<>>
    /\ usage = None
    /\ step_cost = 0
    /\ calls = <<>>
    /\ hpc = [h \in Handlers |-> "unused"]
    /\ approvedBy = [h \in Handlers |-> Nothing]
    /\ result = [h \in Handlers |-> None]
    /\ effects = {}
    /\ providerCalls = 0
    /\ failedCall = Nothing
    /\ retval = NoReturn
    /\ frames = <<>>
    /\ missions = 0
    /\ swarm_context = <<>>
    /\ lastStart = NoStart
    /\ swarmErr = Nothing
    /\ time_now = 0
    /\ limiter = [l \in LimiterIds |-> NoLimiter]
    /\ callers = [c \in Callers |-> IdleCaller]
    /\ submitted = 0
    /\ skills = {}
    /\ skill_files = [f \in FileStems |-> Nothing]
    /\ reload = NoReload
    /\ lastOp = NoOp
    /\ observed = NoLookup
    /\ fs_files = [r \in RealPaths |-> Nothing]
    /\ fs_links = {}
    /\ fs_result = NoCall
    /\ spawned = [h \in Handlers |-> NotSpawned]
    /\ decide_status = NoDecide
    /\ workflows = {}
    /\ workflow_files = [f \in FileStems |-> FALSE]
    /\ tool_cache = [k \in CacheKeys |-> NotCached]
    /\ tools_built = NotBuilt

\* The texts finalize_run is called with in SpecFinalize.
Chars == {" ", "\n", "a"}

Texts == UNION {[1..n -> Chars] : n \in 0..MaxTextLen}

\* The state with an output text drawn from Texts.
InitFinalize ==
    /\ InitState
    /\ vIn = [agent_id |-> Nothing, payload |-> NoPayload]
    /\ vOut = Nothing
    /\ output_text \in Texts

\* The answer of the provider wherever the text does not matter.
PlainText == <<"d", "o", "n", "e">>

NoInput == [agent_id |-> Nothing, payload |-> NoPayload]

Init ==
    /\ InitState
    /\ vIn = NoInput
    /\ vOut = Nothing
    /\ output_text = PlainText

\* ------------------------------------------------------------------------
\*  AgentRunner::run up to the tool dispatch
\* ------------------------------------------------------------------------

\* The payloads POST /agents/:id/send is called with.
RunPayloads ==
    {[msg_len |-> 5, swarm_depth |-> None, swarm_lineage |-> None,
      budget_usd |-> b] : b \in {None, Some(0), Some(TinyBudget)}}
    \cup {[msg_len |-> MAX_TASK_LENGTH + 1, swarm_depth |-> None,
           swarm_lineage |-> None, budget_usd |-> None],
          [msg_len |-> 5, swarm_depth |-> Some(1),
           swarm_lineage |-> Some(<<"1">>), budget_usd |-> None],
          [msg_len |-> 5, swarm_depth |-> Some(MAX_SWARM_DEPTH),
           swarm_lineage |-> None, budget_usd |-> None]}

\* What a provider reports as usage: nothing, or a TokenUsage.
UsageChoices ==
    {None, Some([input_tokens |-> 1000, output_tokens |-> 1000,
                 total_tokens |-> 2000])}

Return(kind, what) == [kind |-> kind, what |-> what]

\* A variant of run that creates the mission before it validates the input.
RunStart_create_first(a, p) ==
    /\ rpc = "idle"
    /\ agent_id' = a
    /\ payload' = p
    /\ mission' = [status     |-> "pending",
                   budget_usd |-> mission_budget(p, agents[a].budget_usd),
                   cost_usd   |-> 0]
    /\ LET v == validate_input(a, p)
       IN  IF v # "ok"
           THEN /\ rpc' = "returned"
                /\ retval' = Return("Err", v)
           ELSE /\ rpc' = "activate"
                /\ UNCHANGED retval
    /\ UNCHANGED <<mission_logs, usage, step_cost, calls, hpc, approvedBy,
                   result, effects, providerCalls, failedCall>>
    /\ UNCHANGED <<gateVars, decVars, killVars, agentVars,
                   auto_approve_safe_skills, valVars, swarmVars, libVars>>

\* run, lines 43-66: validate_input, then create_mission (status pending).
RunStart(a, p) ==
    /\ rpc = "idle"
    /\ agent_id' = a
    /\ payload' = p
    /\ LET v == validate_input(a, p)
       IN  IF v # "ok"
           THEN /\ rpc' = "returned"
                /\ retval' = Return("Err", v)
                /\ UNCHANGED mission
           ELSE /\ rpc' = "activate"
                /\ mission' = [status     |-> "pending",
                               budget_usd |-> mission_budget(p, agents[a].budget_usd),
                               cost_usd   |-> 0]
                /\ UNCHANGED retval
    /\ UNCHANGED <<mission_logs, usage, step_cost, calls, hpc, approvedBy,
                   result, effects, providerCalls, failedCall>>
    /\ UNCHANGED <<gateVars, decVars, killVars, agentVars,
                   auto_approve_safe_skills, valVars, swarmVars, libVars>>

\* run, lines 69-79: update_mission(Active, 0.0), log_step("User").
RunActivate ==
    /\ rpc = "activate"
    /\ mission' = update_mission(mission, "active", 0)
    /\ mission_logs' = log_step_text(mission_logs, "User", payload.msg_len,
                                     "info")
    /\ rpc' = "resolve"
    /\ UNCHANGED <<agent_id, payload, usage, step_cost, calls, hpc, approvedBy,
                   result, effects, providerCalls, failedCall, retval>>
    /\ UNCHANGED <<gateVars, decVars, killVars, agentVars,
                   auto_approve_safe_skills, valVars, swarmVars, libVars>>

\* run, lines 82-107: resolve_agent_context, which fails when the model's
\* provider is not in the provider registry (the `?` of line 82 returns at
\* once), then the System "is thinking" step.
RunResolve(ok) ==
    /\ rpc = "resolve"
    /\ IF ok
       THEN /\ mission_logs' = log_step(mission_logs, "System", "info")
            /\ rpc' = "call_provider"
            /\ UNCHANGED retval
       ELSE /\ rpc' = "returned"
            /\ retval' = Return("Err", "Provider not found")
            /\ UNCHANGED mission_logs
    /\ UNCHANGED <<agent_id, payload, mission, usage, step_cost, calls, hpc,
                   approvedBy, result, effects, providerCalls, failedCall>>
    /\ UNCHANGED <<gateVars, decVars, killVars, agentVars,
                   auto_approve_safe_skills, valVars, swarmVars, libVars>>

\* run, lines 112-127: the primary generation succeeds with function calls
\* fcs and usage u; the step cost is computed from that usage.
RunProviderOk(fcs, u) ==
    /\ rpc = "call_provider"
    /\ providerCalls' = providerCalls + 1
    /\ calls' = fcs
    /\ usage' = u
    /\ step_cost' = usage_cost(agents[agent_id].model_id, u)
    /\ rpc' = "check_budget"
    /\ UNCHANGED <<agent_id, payload, mission, mission_logs, hpc, approvedBy,
                   result, effects, failedCall, retval>>
    /\ UNCHANGED <<gateVars, decVars, killVars, agentVars,
                   auto_approve_safe_skills, valVars, swarmVars, libVars>>

\* handle_provider_error, lines 600-621.
handle_provider_error ==
    /\ agents' = [agents EXCEPT ![agent_id].status = "idle"]
    /\ mission' = update_mission(mission, "failed", 0)
    /\ mission_logs' = log_step(mission_logs, "System", "error")

\* run, lines 112-119: the primary generation fails.
RunProviderErr ==
    /\ rpc = "call_provider"
    /\ providerCalls' = providerCalls + 1
    /\ failedCall' = "primary"
    /\ handle_provider_error
    /\ rpc' = "returned"
    /\ retval' = Return("Err", "provider")
    /\ UNCHANGED <<agent_id, payload, usage, step_cost, calls, hpc, approvedBy,
                   result, effects>>
    /\ UNCHANGED <<gateVars, decVars, killVars, routeOps,
                   auto_approve_safe_skills, valVars, swarmVars, libVars>>

\* check_budget, line 630: the test reads the stored mission row; the
\* step cost handed in is not used (the parameter is `_step_cost`).
budget_exceeded(m, cost_of_step) == m.cost_usd >= m.budget_usd

\* A variant of the budget check that pauses the mission and lets the run
\* go on.
RunCheckBudget_goes_on ==
    /\ rpc = "check_budget"
    /\ IF budget_exceeded(mission, step_cost)
       THEN /\ mission' = update_mission(mission, "paused", 0)
            /\ mission_logs' = log_step(mission_logs, "Finance Analyst", "warning")
       ELSE UNCHANGED <<mission, mission_logs>>
    /\ rpc' = IF calls = <<>> THEN "finalize" ELSE "dispatch"
    /\ hpc' = [h \in Handlers |-> IF h <= Len(calls) THEN "start" ELSE "unused"]
    /\ UNCHANGED <<agent_id, payload, usage, step_cost, calls, approvedBy,
                   result, effects, providerCalls, failedCall, retval>>
    /\ UNCHANGED <<gateVars, decVars, killVars, agentVars,
                   auto_approve_safe_skills, valVars, swarmVars, libVars>>

\* run, lines 129-149: check_budget, then one handler future per call.
RunCheckBudget ==
    /\ rpc = "check_budget"
    /\ IF budget_exceeded(mission, step_cost)
       THEN /\ mission' = update_mission(mission, "paused", 0)
            /\ mission_logs' = log_step(mission_logs, "Finance Analyst", "warning")
            /\ rpc' = "returned"
            /\ retval' = Return("Ok", "(PAUSED: Budget Exceeded)")
            /\ UNCHANGED hpc
       ELSE /\ rpc' = IF calls = <<>> THEN "finalize" ELSE "dispatch"
            /\ hpc' = [h \in Handlers |->
                          IF h <= Len(calls) THEN "start" ELSE "unused"]
            /\ UNCHANGED <<mission, mission_logs, retval>>
    /\ UNCHANGED <<agent_id, payload, usage, step_cost, calls, approvedBy,
                   result, effects, providerCalls, failedCall>>
    /\ UNCHANGED <<gateVars, decVars, killVars, agentVars,
                   auto_approve_safe_skills, valVars, swarmVars, libVars>>


\* ------------------------------------------------------------------------
\*  Tool dispatch: run, lines 134-158, and execute_tool
\*
\*  The handler futures of one turn live in one FuturesUnordered and are
\*  polled by the run's own task: a handler finishes inside
\*  futures.next(), whose result the loop body consumes at once, and the
\*  code between two await points of a handler runs without any other
\*  future of the turn being polled.
\* ------------------------------------------------------------------------

Finished(pc_) == pc_ \in {"done", "unused"}

\* No handler of the turn is between its two map inserts (no await point
\* separates them, so the run's task is inside that handler).
NoSync == \A h \in Handlers : hpc[h] # "q_inserted"

\* run, line 152: `result?` / `return Ok(early_return)` drops the
\* FuturesUnordered, which drops every handler future still pending.
CancelledPc(h, how) ==
    [x \in Handlers |->
        IF x = h THEN how
        ELSE IF hpc[x] \in {"start", "await"} THEN "cancelled" ELSE hpc[x]]

\* Dropping a handler that awaits its decision drops its Receiver.
CancelledChan(h, own) ==
    [x \in Handlers |->
        IF x = h THEN own
        ELSE IF hpc[x] = "await" /\ chan[x] = "open" THEN "rx_dropped"
        ELSE chan[x]]

\* run, lines 152-153: a handler ended with Err or with an early return.
RunReturns(h, how, kind, what, own) ==
    /\ hpc' = CancelledPc(h, how)
    /\ chan' = CancelledChan(h, own)
    /\ rpc' = "returned"
    /\ retval' = Return(kind, what)

\* run, lines 155-157: the handler's text and usage are collected; after
\* the last one the run goes on to finalize_run.
RunCollects(h, own) ==
    /\ hpc' = [hpc EXCEPT ![h] = "done"]
    /\ chan' = [chan EXCEPT ![h] = own]
    /\ rpc' = IF \A x \in Handlers \ {h} : Finished(hpc[x])
              THEN "finalize" ELSE rpc
    /\ UNCHANGED retval

\* execute_tool, line 673: the pre-tool hook fails, the handler is not run.
HandlerPreHookFail(h) ==
    /\ rpc = "dispatch"
    /\ hpc[h] = "start"
    /\ NoSync
    /\ RunReturns(h, "failed", "Err", "Hook script failed", chan[h])
    /\ UNCHANGED <<agent_id, payload, mission, mission_logs, usage, step_cost,
                   calls, approvedBy, result, effects, providerCalls,
                   failedCall>>
    /\ UNCHANGED <<oversight_queue, oversight_resolvers, oversight_ledger,
                   decVars, killVars, agentVars, auto_approve_safe_skills,
                   valVars, swarmVars, libVars>>

\* submit_oversight / submit_capability_oversight, step 1:
\* oversight_queue.insert(entry_id, entry).
HandlerSubmit(h) ==
    /\ rpc = "dispatch"
    /\ hpc[h] = "start"
    /\ calls[h] \in GatedTools
    /\ NoSync
    /\ oversight_queue' = oversight_queue \cup {h}
    /\ hpc' = [hpc EXCEPT ![h] = "q_inserted"]
    /\ UNCHANGED <<rpc, agent_id, payload, mission, mission_logs, usage,
                   step_cost, calls, approvedBy, result, effects,
                   providerCalls, failedCall, retval>>
    /\ UNCHANGED <<oversight_resolvers, oversight_ledger, chan, decVars,
                   killVars, agentVars, auto_approve_safe_skills, valVars,
                   swarmVars, libVars>>

\* submit_oversight, step 2: oneshot::channel() and
\* oversight_resolvers.insert(entry_id, tx); then rx.await suspends.
HandlerRegister(h) ==
    /\ rpc = "dispatch"
    /\ hpc[h] = "q_inserted"
    /\ oversight_resolvers' = oversight_resolvers \cup {h}
    /\ chan' = [chan EXCEPT ![h] = "open"]
    /\ hpc' = [hpc EXCEPT ![h] = "await"]
    /\ UNCHANGED <<rpc, agent_id, payload, mission, mission_logs, usage,
                   step_cost, calls, approvedBy, result, effects,
                   providerCalls, failedCall, retval>>
    /\ UNCHANGED <<oversight_queue, oversight_ledger, decVars, killVars,
                   agentVars, auto_approve_safe_skills, valVars, swarmVars,
                   libVars>>

\* Gated tools whose approved side effect can fail, and what the handler
\* does with the failure: handle_delete_file writes the marker
\* "(DELETE FAILED: ..)" (lines 1280-1282), handle_archive_to_vault and
\* handle_notify_discord let the adapter's error out through `?`
\* (lines 1045, 1080).
FailureCaptured(tool) == tool = "delete_file"

FallibleTools == {"delete_file", "archive_to_vault", "notify_discord"}

ResumeOutcomes == {"ok", "tool failed", "post hook failed"}

\* submit_oversight, step 4 (rx.await returns), then the handler's
\* `if approved { side effect } else { rejection marker }`, where the side
\* effect may fail, and the post-tool hook of execute_tool (line 740),
\* which may fail.
HandlerResume(h, outcome) ==
    /\ rpc = "dispatch"
    /\ hpc[h] = "await"
    /\ chan[h] \in {"sent_true", "sent_false", "tx_dropped"}
    /\ NoSync
    /\ LET approved == AwaitResult(chan[h])
           failed == outcome = "tool failed"
       IN  /\ failed => (approved /\ calls[h] \in FallibleTools)
           /\ result' = [result EXCEPT ![h] = Some(approved)]
           /\ effects' = IF approved /\ ~failed THEN effects \cup {h}
                         ELSE effects
           /\ mission' = IF approved /\ calls[h] = "complete_mission"
                         THEN update_mission(mission, "completed", 0)
                         ELSE mission
           /\ CASE outcome = "ok" -> RunCollects(h, "closed")
                [] outcome = "tool failed" ->
                      IF FailureCaptured(calls[h])
                      THEN RunCollects(h, "closed")
                      ELSE RunReturns(h, "failed", "Err", "tool failed",
                                      "closed")
                [] outcome = "post hook failed" ->
                      RunReturns(h, "failed", "Err", "Hook script failed",
                                 "closed")
    /\ UNCHANGED <<agent_id, payload, mission_logs, usage, step_cost, calls,
                   approvedBy, providerCalls, failedCall>>
    /\ UNCHANGED <<oversight_queue, oversight_resolvers, oversight_ledger,
                   decVars, killVars, agentVars, auto_approve_safe_skills,
                   valVars, swarmVars, libVars>>

\* A variant of the handler that marks the mission failed when its
\* synthesis call fails.
HandlerFetch_marking_failed(h, out, u) ==
    /\ rpc = "dispatch"
    /\ hpc[h] = "start"
    /\ calls[h] = "fetch_url"
    /\ NoSync
    /\ CASE out = "fetch failed" ->
              /\ u = None
              /\ RunCollects(h, chan[h])
              /\ UNCHANGED <<usage, providerCalls, failedCall, mission>>
         [] out = "synthesized" ->
              /\ providerCalls' = providerCalls + 1
              /\ usage' = accumulate_usage(usage, u)
              /\ RunCollects(h, chan[h])
              /\ UNCHANGED <<failedCall, mission>>
         [] out = "synthesis failed" ->
              /\ u = None
              /\ providerCalls' = providerCalls + 1
              /\ failedCall' = "synthesis"
              /\ mission' = update_mission(mission, "failed", 0)
              /\ RunReturns(h, "failed", "Err", "provider", chan[h])
              /\ UNCHANGED usage
    /\ UNCHANGED <<agent_id, payload, mission_logs, step_cost, calls,
                   approvedBy, result, effects>>
    /\ UNCHANGED <<oversight_queue, oversight_resolvers, oversight_ledger,
                   decVars, killVars, agentVars, auto_approve_safe_skills,
                   valVars, swarmVars, libVars>>

\* handle_fetch_url: the GET fails (a marker, no provider call), or the
\* synthesis call succeeds with usage u, or the synthesis call fails and
\* its error leaves the handler through `?`.
HandlerFetch(h, out, u) ==
    /\ rpc = "dispatch"
    /\ hpc[h] = "start"
    /\ calls[h] = "fetch_url"
    /\ NoSync
    /\ CASE out = "fetch failed" ->
              /\ u = None
              /\ RunCollects(h, chan[h])
              /\ UNCHANGED <<usage, providerCalls, failedCall>>
         [] out = "synthesized" ->
              /\ providerCalls' = providerCalls + 1
              /\ usage' = accumulate_usage(usage, u)
              /\ RunCollects(h, chan[h])
              /\ UNCHANGED failedCall
         [] out = "synthesis failed" ->
              /\ u = None
              /\ providerCalls' = providerCalls + 1
              /\ failedCall' = "synthesis"
              /\ RunReturns(h, "failed", "Err", "provider", chan[h])
              /\ UNCHANGED usage
    /\ UNCHANGED <<agent_id, payload, mission, mission_logs, step_cost, calls,
                   approvedBy, result, effects>>
    /\ UNCHANGED <<oversight_queue, oversight_resolvers, oversight_ledger,
                   decVars, killVars, agentVars, auto_approve_safe_skills,
                   valVars, swarmVars, libVars>>

FetchOutcomes == {"fetch failed", "synthesized", "synthesis failed"}

\* handle_alpha_directive: the child run of agent "2" returns Ok, which
\* the handler hands back as an early return (execute_tool, line 682),
\* or Err, which leaves through `?`.  The child run itself is not
\* unfolded here.
HandlerAlpha(h, child_ok) ==
    /\ rpc = "dispatch"
    /\ hpc[h] = "start"
    /\ calls[h] = "issue_alpha_directive"
    /\ NoSync
    /\ IF child_ok
       THEN RunReturns(h, "done", "Ok", "Directive issued to Tadpole Alpha", chan[h])
       ELSE RunReturns(h, "failed", "Err", "child run failed", chan[h])
    /\ UNCHANGED <<agent_id, payload, mission, mission_logs, usage, step_cost,
                   calls, approvedBy, result, effects, providerCalls,
                   failedCall>>
    /\ UNCHANGED <<oversight_queue, oversight_resolvers, oversight_ledger,
                   decVars, killVars, agentVars, auto_approve_safe_skills,
                   valVars, swarmVars, libVars>>

SpawnOutcomes == {"child failed", "synthesized", "synthesis failed"}

\* handle_spawn_subagent, lines 825-880, called by the tool loop of run
\* with an empty local_text (line 146) as its output_text.  The child run,
\* not unfolded here, uses child_u tokens of its own and returns Ok(text)
\* or Err; the synthesis call uses u.  The handler's usage is what it
\* accumulated into local_usage, its output the synthesis text.
HandlerSpawn(h, out, child_u, u) ==
    /\ rpc = "dispatch"
    /\ hpc[h] = "start"
    /\ calls[h] = "spawn_subagent"
    /\ NoSync
    /\ LET local_text == <<>>
           strategic_intent == IF local_text # <<>> THEN local_text ELSE <<>>
           did == [outcome |-> out, intent |-> strategic_intent,
                   child_usage |-> child_u, synthesis_usage |-> u,
                   output |-> Nothing]
       IN  CASE out = "child failed" ->
                  /\ child_u = None /\ u = None
                  /\ spawned' = [spawned EXCEPT ![h] = did]
                  /\ RunReturns(h, "failed", "Err", "child run failed", chan[h])
                  /\ UNCHANGED <<usage, providerCalls, failedCall>>
             [] out = "synthesized" ->
                  /\ spawned' = [spawned EXCEPT ![h] =
                                    [did EXCEPT !.output = "synthesis"]]
                  /\ providerCalls' = providerCalls + 1
                  /\ usage' = accumulate_usage(usage, u)
                  /\ RunCollects(h, chan[h])
                  /\ UNCHANGED failedCall
             [] out = "synthesis failed" ->
                  /\ u = None
                  /\ spawned' = [spawned EXCEPT ![h] = did]
                  /\ providerCalls' = providerCalls + 1
                  /\ failedCall' = "synthesis"
                  /\ RunReturns(h, "failed", "Err", "provider", chan[h])
                  /\ UNCHANGED usage
    /\ UNCHANGED <<agent_id, payload, mission, mission_logs, step_cost, calls,
                   approvedBy, result, effects>>
    /\ UNCHANGED <<oversight_queue, oversight_resolvers, oversight_ledger,
                   decVars, killVars, agentVars, auto_approve_safe_skills,
                   valVars, swarmVars, notTurnVars, decide_status>>

\* finalize_run, lines 1372-1402: the agent's stats and status.
RunFinalizeAgent ==
    /\ rpc = "finalize"
    /\ LET a == agents[agent_id]
           turn_cost == usage_cost(a.model_id, usage)
       IN  agents' = [agents EXCEPT ![agent_id] =
                        [a EXCEPT !.tokens_used = IF usage.some
                                                  THEN @ + usage.v.total_tokens
                                                  ELSE @,
                                  !.cost_usd = @ + turn_cost,
                                  !.status = "idle"]]
    /\ rpc' = "finalize_mission"
    /\ UNCHANGED <<agent_id, payload, mission, mission_logs, usage, step_cost,
                   calls, hpc, approvedBy, result, effects, providerCalls,
                   failedCall, retval>>
    /\ UNCHANGED <<gateVars, decVars, killVars, routeOps,
                   auto_approve_safe_skills, valVars, swarmVars, libVars>>

\* finalize_run, lines 1405-1431: the delivery text, update_mission(
\* Completed, cumulative cost), log_step("Agent", "success"), return the
\* delivery.
RunFinalizeMission ==
    /\ rpc = "finalize_mission"
    /\ mission' = update_mission(mission, "completed",
                                 usage_cost(agents[agent_id].model_id, usage))
    /\ mission_logs' = log_step(mission_logs, "Agent", "success")
    /\ rpc' = "returned"
    /\ retval' = Return("Ok", final_delivery(output_text))
    /\ UNCHANGED <<agent_id, payload, usage, step_cost, calls, hpc, approvedBy,
                   result, effects, providerCalls, failedCall>>
    /\ UNCHANGED <<gateVars, decVars, killVars, agentVars,
                   auto_approve_safe_skills, valVars, swarmVars, libVars>>


\* ------------------------------------------------------------------------
\*  POST /oversight/:id/decide (routes/oversight.rs, decide_oversight)
\* ------------------------------------------------------------------------

\* Lines 79-90, the entry is absent: 404, nothing changes.
DecideNotFound(d, id, decision) ==
    /\ dec[d].pc = "idle"
    /\ id \notin oversight_queue
    /\ UNCHANGED vars

\* Lines 79-82: oversight_queue.remove(&entry_id) finds the entry.
DecideRemove(d, id, decision) ==
    /\ dec[d].pc = "idle"
    /\ id \in oversight_queue
    /\ oversight_queue' = oversight_queue \ {id}
    /\ dec' = [dec EXCEPT ![d] = [pc |-> "resolve", id |-> id,
                                  decision |-> decision]]
    /\ UNCHANGED <<oversight_resolvers, oversight_ledger, chan, killVars,
                   agentVars, auto_approve_safe_skills, runVars, valVars,
                   swarmVars, libVars>>

\* A variant of the request that goes on without the entry.
decide_oversight_unchecked(d, id, decision) ==
    /\ dec[d].pc = "idle"
    /\ decide_status' = [id |-> id, status |-> "removed"]
    /\ oversight_queue' = oversight_queue \ {id}
    /\ dec' = [dec EXCEPT ![d] = [pc |-> "resolve", id |-> id,
                                  decision |-> decision]]
    /\ UNCHANGED <<oversight_resolvers, oversight_ledger, chan, killVars,
                   agentVars, auto_approve_safe_skills, runVars, valVars,
                   swarmVars, notTurnVars, spawned>>

\* decide_oversight, lines 79-90, with what the lookup found:
\* oversight_queue.remove(&entry_id), and the 404 Not Found response when
\* there was no entry.
decide_oversight(d, id, decision) ==
    /\ dec[d].pc = "idle"
    /\ IF id \notin oversight_queue
       THEN /\ decide_status' = [id |-> id, status |-> "Not Found"]
            /\ UNCHANGED <<oversight_queue, dec>>
       ELSE /\ decide_status' = [id |-> id, status |-> "removed"]
            /\ oversight_queue' = oversight_queue \ {id}
            /\ dec' = [dec EXCEPT ![d] = [pc |-> "resolve", id |-> id,
                                          decision |-> decision]]
    /\ UNCHANGED <<oversight_resolvers, oversight_ledger, chan, killVars,
                   agentVars, auto_approve_safe_skills, runVars, valVars,
                   swarmVars, notTurnVars, spawned>>

\* Lines 93-95: oversight_resolvers.remove(&entry_id), shooter.send(approved).
DecideResolve(d) ==
    /\ dec[d].pc = "resolve"
    /\ LET id == dec[d].id
       IN  IF id \in oversight_resolvers
           THEN /\ oversight_resolvers' = oversight_resolvers \ {id}
                /\ chan' = [chan EXCEPT ![id] = Send(@, Approved(dec[d].decision))]
                /\ approvedBy' = IF chan[id] = "open"
                                 THEN [approvedBy EXCEPT ![id] = dec[d].decision]
                                 ELSE approvedBy
           ELSE UNCHANGED <<oversight_resolvers, chan, approvedBy>>
    /\ dec' = [dec EXCEPT ![d].pc = "ledger"]
    /\ UNCHANGED <<oversight_queue, oversight_ledger, killVars, agentVars,
                   auto_approve_safe_skills, valVars, swarmVars, libVars>>
    /\ UNCHANGED <<rpc, agent_id, payload, mission, mission_logs, usage,
                   step_cost, calls, hpc, result, effects, providerCalls,
                   failedCall, retval>>

\* Lines 98-129: the ledger entry, newest first, capped; the decided event.
DecideLedger(d) ==
    /\ dec[d].pc = "ledger"
    /\ oversight_ledger' = LedgerInsert(oversight_ledger,
                                        [id |-> dec[d].id,
                                         decision |-> dec[d].decision])
    /\ dec' = [dec EXCEPT ![d] = IdleDecider]
    /\ UNCHANGED <<oversight_queue, oversight_resolvers, chan, killVars,
                   agentVars, auto_approve_safe_skills, runVars, valVars,
                   swarmVars, libVars>>

\* ------------------------------------------------------------------------
\*  POST /engine/kill (routes/engine_control.rs, kill_agents)
\* ------------------------------------------------------------------------

Started(pc_) == pc_ \in {"q_inserted", "await"}

NonIdle(ag) == {a \in AgentIds : ag[a].status # "idle"}

\* Lines 19-25: the loop over agents.iter_mut() halts every agent whose
\* status is active, thinking, coding or speaking.
KillHalt ==
    /\ killPc = "idle"
    /\ killPc' = "snapshot"
    /\ killPre' = [started  |-> {h \in Handlers : Started(hpc[h])},
                   nonIdle  |-> NonIdle(agents),
                   routeOps |-> routeOps]
    /\ agents' = [a \in AgentIds |->
                    IF Halts(agents[a].status)
                    THEN [agents[a] EXCEPT !.status = "idle",
                                           !.active_mission = FALSE]
                    ELSE agents[a]]
    /\ UNCHANGED <<pending_ids, killRemoved>>
    /\ UNCHANGED <<gateVars, decVars, routeOps, auto_approve_safe_skills,
                   runVars, valVars, swarmVars, libVars>>

\* Line 28: pending_ids = the keys of oversight_queue.
KillSnapshot ==
    /\ killPc = "snapshot"
    /\ pending_ids' = oversight_queue
    /\ killPc' = "clear"
    /\ UNCHANGED <<killRemoved, killPre>>
    /\ UNCHANGED <<gateVars, decVars, agentVars, auto_approve_safe_skills,
                   runVars, valVars, swarmVars, libVars>>

\* Line 30: oversight_queue.remove(id) for the next id of the snapshot.
KillRemoveQueue(id) ==
    /\ killPc = "clear"
    /\ id \in pending_ids
    /\ oversight_queue' = oversight_queue \ {id}
    /\ killRemoved' = id
    /\ killPc' = "resolve"
    /\ UNCHANGED <<pending_ids, killPre>>
    /\ UNCHANGED <<oversight_resolvers, oversight_ledger, chan, decVars,
                   agentVars, auto_approve_safe_skills, runVars, valVars,
                   swarmVars, libVars>>

\* Lines 31-33: oversight_resolvers.remove(id), resolver.send(false).
KillResolve ==
    /\ killPc = "resolve"
    /\ LET id == killRemoved
       IN  /\ IF id \in oversight_resolvers
              THEN /\ oversight_resolvers' = oversight_resolvers \ {id}
                   /\ chan' = [chan EXCEPT ![id] = Send(@, KillVerdict)]
                   /\ approvedBy' = IF chan[id] = "open"
                                    THEN [approvedBy EXCEPT ![id] = "kill"]
                                    ELSE approvedBy
              ELSE UNCHANGED <<oversight_resolvers, chan, approvedBy>>
           /\ pending_ids' = pending_ids \ {id}
    /\ killPc' = "clear"
    /\ killRemoved' = 0
    /\ UNCHANGED killPre
    /\ UNCHANGED <<oversight_queue, oversight_ledger, decVars, agentVars,
                   auto_approve_safe_skills, valVars, swarmVars, libVars>>
    /\ UNCHANGED <<rpc, agent_id, payload, mission, mission_logs, usage,
                   step_cost, calls, hpc, result, effects, providerCalls,
                   failedCall, retval>>

\* Lines 36-48: the loop is over; the engine:kill event and the response.
KillFinish ==
    /\ killPc = "clear"
    /\ pending_ids = {}
    /\ killPc' = "idle"
    /\ killPre' = NoKillPre
    /\ UNCHANGED <<pending_ids, killRemoved>>
    /\ UNCHANGED <<gateVars, decVars, agentVars, auto_approve_safe_skills,
                   runVars, valVars, swarmVars, libVars>>

\* ------------------------------------------------------------------------
\*  Agent routes (routes/agent.rs) and PUT /oversight/settings
\* ------------------------------------------------------------------------

\* POST /agents/:id/resume
resume_agent(a) ==
    /\ routeOps < MaxRouteOps
    /\ routeOps' = routeOps + 1
    /\ agents' = [agents EXCEPT ![a].status = "active"]
    /\ UNCHANGED <<gateVars, decVars, killVars, auto_approve_safe_skills,
                   runVars, valVars, swarmVars, libVars>>

\* POST /agents/:id/pause
pause_agent(a) ==
    /\ routeOps < MaxRouteOps
    /\ routeOps' = routeOps + 1
    /\ agents' = [agents EXCEPT ![a].status = "idle"]
    /\ UNCHANGED <<gateVars, decVars, killVars, auto_approve_safe_skills,
                   runVars, valVars, swarmVars, libVars>>

\* POST /agents: the registry entry is replaced by the posted agent, whose
\* status is any of the documented ones and which carries a mission.
create_agent(a, status) ==
    /\ routeOps < MaxRouteOps
    /\ routeOps' = routeOps + 1
    /\ agents' = [agents EXCEPT ![a].status = status,
                                ![a].active_mission = TRUE]
    /\ UNCHANGED <<gateVars, decVars, killVars, auto_approve_safe_skills,
                   runVars, valVars, swarmVars, libVars>>

\* PUT /oversight/settings
update_settings(b) ==
    /\ auto_approve_safe_skills # b
    /\ auto_approve_safe_skills' = b
    /\ UNCHANGED <<gateVars, decVars, killVars, agentVars, runVars, valVars,
                   swarmVars, libVars>>

\* ------------------------------------------------------------------------
\*  Nested runs (spawn_subagent, issue_alpha_directive) and the swarm
\*  context table (agent/mission.rs).  A handler awaits the child run it
\*  starts, so the runs of one chain form a stack; the other handlers of a
\*  parent's turn go on while the child runs.
\* ------------------------------------------------------------------------

\* A variant of get_mission_context whose query has no WHERE clause.
get_mission_context_any_mission(rows, m) ==
    LET sel == DOMAIN rows
        n == Cardinality(sel)
        orders == {o \in [1..n -> sel] :
                     /\ \A j, k \in 1..n : j # k => o[j] # o[k]
                     /\ \A j, k \in 1..n : j < k =>
                            rows[o[j]].timestamp <= rows[o[k]].timestamp}
    IN  {[j \in 1..n |-> [agent_id |-> rows[o[j]].agent_id,
                          finding  |-> rows[o[j]].finding]] : o \in orders}

\* get_mission_context: SELECT agent_id, topic, finding FROM swarm_context
\* WHERE mission_id = ?1 ORDER BY timestamp ASC, one line of text per row.
\* The timestamp column has a resolution of one second and SQL leaves the
\* order of rows with equal keys open: the value is the set of texts the
\* query may produce.
get_mission_context(rows, m) ==
    LET sel == {i \in DOMAIN rows : rows[i].mission_id = m}
        n == Cardinality(sel)
        orders == {o \in [1..n -> sel] :
                     /\ \A j, k \in 1..n : j # k => o[j] # o[k]
                     /\ \A j, k \in 1..n : j < k =>
                            rows[o[j]].timestamp <= rows[o[k]].timestamp}
    IN  {[j \in 1..n |-> [agent_id |-> rows[o[j]].agent_id,
                          finding  |-> rows[o[j]].finding]] : o \in orders}

\* share_finding: INSERT INTO swarm_context; the timestamp column takes
\* its default, CURRENT_TIMESTAMP (db.rs, line 95), here now.  Every
\* finding is a text of its own, named here by its number.
share_finding(rows, mission_id, a, now) ==
    Append(rows, [mission_id |-> mission_id, agent_id |-> a,
                  finding |-> Len(rows) + 1, timestamp |-> now])

\* CURRENT_TIMESTAMP, in seconds, when the newest row was inserted.
LastTimestamp(rows) == IF rows = <<>> THEN 0 ELSE rows[Len(rows)].timestamp

\* The agents spawn_subagent is called for (the default is "general");
\* issue_alpha_directive names agent "2".
SwarmAgentIds == {"1", "3", "4", "5", OtherAgentId}

\* The TaskPayload handle_spawn_subagent and handle_alpha_directive build
\* for the child run of the run in frame parent.
ChildPayload(parent) ==
    [msg_len       |-> 5,
     swarm_depth   |-> Some(parent.depth + 1),
     swarm_lineage |-> Some(Append(parent.lineage, parent.agent_id)),
     budget_usd    |-> None,
     safe_mode     |-> Some(parent.safe_mode),
     cluster_id    |-> Some(parent.mission_id)]

\* Payloads of POST /agents/:id/send: swarmDepth, swarmLineage and
\* safeMode are fields of the request body.  A plain task, tasks claiming
\* a depth without a lineage, and a safe-mode task three levels down.
SwarmPayloads ==
    {[msg_len |-> 5, swarm_depth |-> d, swarm_lineage |-> None,
      budget_usd |-> None, safe_mode |-> None, cluster_id |-> None] :
        d \in {None, Some(3), Some(MAX_SWARM_DEPTH)}}
    \cup {[msg_len |-> 5, swarm_depth |-> Some(3),
           swarm_lineage |-> Some(<<OtherAgentId, "3", "4">>),
           budget_usd |-> None, safe_mode |-> Some(TRUE),
           cluster_id |-> None]}

Top == frames[Len(frames)]

Pop(st) == SubSeq(st, 1, Len(st) - 1)

\* run, lines 43-98: validate_input, create_mission (a mission row with a
\* new id), resolve_agent_context, build_system_prompt reading the swarm
\* context of the run's mission id.  A refused child run is an Err in the
\* parent's handler.
StartRun(a, p, by) ==
    LET v == validate_input(a, p)
        mission_id == missions + 1
    IN  /\ v = "ok" => missions < MaxMissions
        /\ lastStart' = [agent_id |-> a, payload |-> p, by |-> by,
                         outcome |-> v]
        /\ IF v = "ok"
           THEN /\ missions' = mission_id
                /\ \E text \in get_mission_context(swarm_context, mission_id) :
                      frames' = Append(frames,
                         [agent_id    |-> a,
                          depth       |-> unwrap_or(p.swarm_depth, 0),
                          lineage     |-> unwrap_or(p.swarm_lineage, <<>>),
                          mission_id  |-> mission_id,
                          safe_mode   |-> unwrap_or(p.safe_mode, FALSE),
                          cluster_id  |-> p.cluster_id,
                          prompt      |-> text,
                          rows_before |-> Len(swarm_context)])
                /\ UNCHANGED swarmErr
           ELSE /\ swarmErr' = IF frames = <<>> THEN Nothing ELSE v
                /\ UNCHANGED <<frames, missions>>
        /\ UNCHANGED swarm_context
        /\ UNCHANGED <<gateVars, decVars, killVars, agentVars,
                       auto_approve_safe_skills, runVars, valVars, libVars>>

\* POST /agents/:id/send (routes/agent.rs, send_task): a root run.
SwarmTask(p) ==
    /\ frames = <<>>
    /\ swarmErr = Nothing
    /\ StartRun("1", p, "task")

\* handle_spawn_subagent: the innermost run starts a child run of
\* sub_agent_id.  execute_tool dispatches on the name of the call alone,
\* whatever tools were declared to the provider.
SwarmSpawn(sub_agent_id) ==
    /\ frames # <<>>
    /\ swarmErr = Nothing
    /\ StartRun(sub_agent_id, ChildPayload(Top), "spawn_subagent")

\* handle_alpha_directive: the innermost run starts a child run of "2".
SwarmAlpha ==
    /\ frames # <<>>
    /\ swarmErr = Nothing
    /\ StartRun("2", ChildPayload(Top), "issue_alpha_directive")

\* handle_share_finding, in the run of frame i, at second now (time does
\* not run backwards):
\* share_finding(pool, &ctx.mission_id, &ctx.agent_id, topic, finding).
SwarmShare(i, now) ==
    /\ i \in DOMAIN frames
    /\ swarmErr = Nothing
    /\ Len(swarm_context) < MaxFindings
    /\ now >= LastTimestamp(swarm_context)
    /\ swarm_context' = share_finding(swarm_context, frames[i].mission_id,
                                      frames[i].agent_id, now)
    /\ UNCHANGED <<frames, missions, lastStart, swarmErr>>
    /\ UNCHANGED <<gateVars, decVars, killVars, agentVars,
                   auto_approve_safe_skills, runVars, valVars, libVars>>

\* The innermost run returns Ok to the handler that awaits it.
SwarmReturn ==
    /\ frames # <<>>
    /\ swarmErr = Nothing
    /\ frames' = Pop(frames)
    /\ lastStart' = NoStart
    /\ UNCHANGED <<missions, swarm_context, swarmErr>>
    /\ UNCHANGED <<gateVars, decVars, killVars, agentVars,
                   auto_approve_safe_skills, runVars, valVars, libVars>>

\* `self.run(..).await?` (lines 866, 966), `result?` (line 152): the Err of
\* a child run is the Err of its parent's run, up to the root.
SwarmUnwind ==
    /\ swarmErr # Nothing
    /\ frames' = Pop(frames)
    /\ swarmErr' = IF Len(frames) = 1 THEN Nothing ELSE swarmErr
    /\ lastStart' = NoStart
    /\ UNCHANGED <<missions, swarm_context>>
    /\ UNCHANGED <<gateVars, decVars, killVars, agentVars,
                   auto_approve_safe_skills, runVars, valVars, libVars>>

\* ------------------------------------------------------------------------
\*  RateLimiter (agent/rate_limiter.rs) and its use by call_provider and
\*  call_provider_for_synthesis (agent/runner.rs)
\* ------------------------------------------------------------------------

\* RateLimiter::new: Semaphore::new(rpm), tokens_used 0, window_start now.
RateLimiter_new(rpm, tpm) ==
    [built |-> TRUE, rpm |-> rpm, tpm |-> tpm, permits |-> unwrap_or(rpm, 0),
     tokens_used |-> 0, window_start |-> time_now]

\* A variant of is_active that looks at the request limit only.
is_active_rpm_only(lim) == lim.rpm.some

\* is_active: rpm_limit.is_some() || tpm_limit.is_some().
is_active(lim) == lim.rpm.some \/ lim.tpm.some

\* acquire, lines 55-61: a window of 60 s has passed, reset the counter.
TpmWindow(lim) ==
    IF time_now - lim.window_start >= WINDOW_SECS
    THEN [lim EXCEPT !.tokens_used = 0, !.window_start = time_now]
    ELSE lim

\* acquire, line 69: Duration::from_secs(60).saturating_sub(elapsed), with
\* the elapsed time read before the reset.
TpmWait(lim) ==
    IF time_now - lim.window_start >= WINDOW_SECS THEN 0
    ELSE WINDOW_SECS - (time_now - lim.window_start)

\* A variant of the permit timer that returns the permit at once.
PermitDue_at_once(at) == time_now >= at

\* acquire, lines 86-89: the detached task sleeps 60 s and drops the
\* permit; a sleep never ends early.
PermitDue(at) == time_now >= at + WINDOW_SECS

\* acquire(est) by caller c on limiter l of the limiters L, from the top of
\* the TPM loop: one pass of the loop under the window_start lock, then the
\* semaphore.  The call runs on without a suspension unless the pass
\* fails (sleep) or no permit is free (the semaphore's wait queue).
AcquireOn(L, c, l, est, via) ==
    LET lim0 == L[l]
        lim1 == IF lim0.tpm.some THEN TpmWindow(lim0) ELSE lim0
        admitted == lim0.tpm.some => lim1.tokens_used + est <= lim0.tpm.v
        me == [callers[c] EXCEPT !.l = l, !.est = est, !.via = via]
    IN  IF ~admitted
        THEN /\ limiter' = [L EXCEPT ![l] = lim1]
             /\ callers' = [callers EXCEPT ![c] =
                     [me EXCEPT !.pc = "sleep",
                                !.wake = time_now + TpmWait(lim0)]]
        ELSE IF ~lim0.rpm.some
        THEN /\ limiter' = [L EXCEPT ![l] = lim1]
             /\ callers' = [callers EXCEPT ![c] =
                     [me EXCEPT !.pc = "acquired", !.at = time_now]]
        ELSE IF lim1.permits > 0
        THEN /\ limiter' = [L EXCEPT ![l] = [lim1 EXCEPT !.permits = @ - 1]]
             /\ callers' = [callers EXCEPT ![c] =
                     [me EXCEPT !.pc = "acquired", !.at = time_now,
                                !.timer = "armed"]]
        ELSE /\ limiter' = [L EXCEPT ![l] = lim1]
             /\ callers' = [callers EXCEPT ![c] = [me EXCEPT !.pc = "rpm_wait"]]

\* RateLimiter::new(rpm, tpm), the limiter the direct callers share.
LimiterNew(rpm, tpm) ==
    /\ ~limiter[SharedLimiter].built
    /\ limiter' = [limiter EXCEPT ![SharedLimiter] = RateLimiter_new(rpm, tpm)]
    /\ UNCHANGED <<time_now, callers>>
    /\ UNCHANGED notLimVars

\* limiter.acquire(est) on the shared limiter.
AcquireCall(c, est) ==
    /\ callers[c].pc = "idle"
    /\ limiter[SharedLimiter].built
    /\ AcquireOn(limiter, c, SharedLimiter, est, "acquire")
    /\ UNCHANGED time_now
    /\ UNCHANGED notLimVars

\* acquire, line 77: the sleep is over, the loop starts again.
AcquireWake(c) ==
    /\ callers[c].pc = "sleep"
    /\ time_now >= callers[c].wake
    /\ AcquireOn(limiter, c, callers[c].l, callers[c].est, callers[c].via)
    /\ UNCHANGED time_now
    /\ UNCHANGED notLimVars

\* acquire, line 83: acquire_owned() resolves once a permit is free.
AcquireGranted(c) ==
    /\ callers[c].pc = "rpm_wait"
    /\ limiter[callers[c].l].permits > 0
    /\ limiter' = [limiter EXCEPT ![callers[c].l].permits = @ - 1]
    /\ callers' = [callers EXCEPT ![c].pc = "acquired", ![c].at = time_now,
                                  ![c].timer = "armed"]
    /\ UNCHANGED time_now
    /\ UNCHANGED notLimVars

\* acquire, lines 86-89: the detached task drops the permit.
PermitTimer(c) ==
    /\ callers[c].timer = "armed"
    /\ PermitDue(callers[c].at)
    /\ limiter' = [limiter EXCEPT ![callers[c].l].permits = @ + 1]
    /\ callers' = [callers EXCEPT ![c].timer = "fired"]
    /\ UNCHANGED time_now
    /\ UNCHANGED notLimVars

\* record_usage(actual): tokens_used.fetch_add(actual).  call_provider
\* calls it when the limiter is active (lines 535-539, 584-588).
RecordUsage(c, actual) ==
    /\ callers[c].pc = "acquired"
    /\ LET l == callers[c].l
           counted == callers[c].via = "call_provider" => is_active(limiter[l])
       IN  limiter' = [limiter EXCEPT ![l].tokens_used =
                          IF counted THEN @ + actual ELSE @]
    /\ callers' = [callers EXCEPT ![c].pc = "recorded", ![c].tokens = actual,
                                  ![c].rec_at = time_now]
    /\ UNCHANGED time_now
    /\ UNCHANGED notLimVars

\* call_provider / call_provider_for_synthesis, lines 497-505 and 554-559,
\* for a model configured with (rpm, tpm): RateLimiter::new(rpm, tpm), then
\* acquire(est) if the limiter is active; the provider call follows.
CallProvider(c, rpm, tpm, est) ==
    /\ callers[c].pc = "idle"
    /\ ~limiter[c].built
    /\ LET built == [limiter EXCEPT ![c] = RateLimiter_new(rpm, tpm)]
       IN  IF is_active(built[c])
           THEN AcquireOn(built, c, c, est, "call_provider")
           ELSE /\ limiter' = built
                /\ callers' = [callers EXCEPT ![c] =
                       [@ EXCEPT !.pc = "acquired", !.at = time_now, !.l = c,
                                 !.est = est, !.via = "call_provider"]]
    /\ UNCHANGED time_now
    /\ UNCHANGED notLimVars

\* Time passes.
LimTick ==
    /\ time_now < MaxTime
    /\ time_now' = time_now + TickSecs
    /\ UNCHANGED <<limiter, callers>>
    /\ UNCHANGED notLimVars

\* Time passes without end: up to MaxTime the clock advances; from then
\* on every instant the limiter and its callers remember moves back by
\* one tick instead, down to the age of one window, beyond which no
\* comparison of acquire, of the sleeps and of the permit timers tells
\* two instants apart.
LimTickForever ==
    /\ IF time_now < MaxTime
       THEN /\ time_now' = time_now + TickSecs
            /\ UNCHANGED <<limiter, callers>>
       ELSE LET Aged(t) == IF t - TickSecs >= time_now - WINDOW_SECS
                           THEN t - TickSecs ELSE time_now - WINDOW_SECS
            IN  /\ UNCHANGED time_now
                /\ limiter' = [l \in LimiterIds |->
                       [limiter[l] EXCEPT !.window_start = Aged(@)]]
                /\ callers' = [c \in Callers |->
                       [callers[c] EXCEPT !.wake = Aged(@), !.at = Aged(@),
                                          !.rec_at = Aged(@)]]
    /\ UNCHANGED notLimVars

\* ------------------------------------------------------------------------
\*  The oversight ledger over many decisions
\* ------------------------------------------------------------------------

\* submit_oversight, lines 1441-1456, for an entry nobody awaits: a fresh
\* uuid (the next serial number) is inserted into oversight_queue.  One
\* entry is pending at a time.
LedgerSubmit ==
    /\ submitted < MaxDecisions
    /\ oversight_queue = {}
    /\ submitted' = submitted + 1
    /\ oversight_queue' = {submitted + 1}
    /\ UNCHANGED <<oversight_resolvers, oversight_ledger, chan, decVars,
                   killVars, agentVars, auto_approve_safe_skills, runVars,
                   valVars, swarmVars, limVars, finVars, regVars, fsVars,
                   turnVars, capVars>>

\* The decisions the request for entry id is drawn from.
DecisionsFor(id) == IF id <= MaxVaried THEN Decisions ELSE {"approved"}

\* ------------------------------------------------------------------------
\*  CapabilitiesRegistry (agent/capabilities.rs)
\*
\*  save_skill and delete_skill are served between rebuilds; the lookups
\*  of the runner happen at any moment.
\* ------------------------------------------------------------------------

\* save_skill, lines 126-136.
save_skill(name) ==
    /\ reload.pc = "idle"
    /\ skill_files' = [skill_files EXCEPT ![safe_name(name)] = name]
    /\ skills' = skills \cup {name}
    /\ lastOp' = [op |-> "save", name |-> name, rebuilt |-> FALSE]
    /\ UNCHANGED <<reload, observed, notRegVars>>

\* delete_skill, lines 138-147.
delete_skill(name) ==
    /\ reload.pc = "idle"
    /\ skill_files' = [skill_files EXCEPT ![safe_name(name)] = Nothing]
    /\ skills' = skills \ {name}
    /\ lastOp' = [op |-> "delete", name |-> name, rebuilt |-> FALSE]
    /\ UNCHANGED <<reload, observed, notRegVars>>

\* reload_all, lines 70-86: the new map is built from the files.
ReloadRead ==
    /\ reload.pc = "idle"
    /\ reload' = [pc |-> "loaded", pre |-> skills,
                  new_skills |-> load_skills(skill_files), todo |-> {},
                  new_workflows |-> load_workflows(workflow_files)]
    /\ UNCHANGED <<skills, skill_files, lastOp, observed, notRegVars>>

\* reload_all, line 112: self.skills.clear().
ReloadClear ==
    /\ reload.pc = "loaded"
    /\ skills' = {}
    /\ reload' = [reload EXCEPT !.pc = "inserting", !.todo = reload.new_skills]
    /\ UNCHANGED <<skill_files, lastOp, observed, notRegVars>>

\* reload_all, lines 113-115: self.skills.insert for the next entry of
\* new_skills, in the iteration order of the DashMap.
ReloadInsert(k) ==
    /\ reload.pc = "inserting"
    /\ k \in reload.todo
    /\ skills' = skills \cup {k}
    /\ reload' = [reload EXCEPT !.todo = @ \ {k}]
    /\ UNCHANGED <<skill_files, lastOp, observed, notRegVars>>

\* reload_all, lines 117-123: the workflows map is cleared and filled
\* from new_workflows, then the log line and Ok(()).
ReloadReturn ==
    /\ reload.pc = "inserting"
    /\ reload.todo = {}
    /\ reload' = [reload EXCEPT !.pc = "idle"]
    /\ lastOp' = [lastOp EXCEPT !.rebuilt = TRUE]
    /\ workflows' = reload.new_workflows
    /\ UNCHANGED <<skills, skill_files, observed, notCapVars,
                   workflow_files, tool_cache, tools_built>>

\* save_workflow, lines 149-157.
save_workflow(name) ==
    /\ reload.pc = "idle"
    /\ workflow_files' = [workflow_files EXCEPT ![safe_name(name)] = TRUE]
    /\ workflows' = workflows \cup {name}
    /\ UNCHANGED <<tool_cache, tools_built, regVars, notCapVars>>

\* delete_workflow, lines 159-168.
delete_workflow(name) ==
    /\ reload.pc = "idle"
    /\ workflow_files' = [workflow_files EXCEPT ![safe_name(name)] = FALSE]
    /\ workflows' = workflows \ {name}
    /\ UNCHANGED <<tool_cache, tools_built, regVars, notCapVars>>

\* build_tools (runner.rs, lines 372-465), called by run for a context
\* with the skills ctx_skills: the cached GeminiTool of the key when
\* there is one, else the declarations built from the registry, which
\* are inserted into the cache.  uncached keeps what the construction
\* without the cache gives at the moment of the call.
build_tools(ctx_skills, safe_mode) ==
    LET cache_key == [skills |-> ctx_skills, safe_mode |-> safe_mode]
        fresh == build_tools_uncached(ctx_skills, safe_mode, skills)
    IN  /\ IF tool_cache[cache_key].cached
           THEN /\ tools_built' = [key |-> cache_key,
                                   tools |-> tool_cache[cache_key].tools,
                                   uncached |-> fresh]
                /\ UNCHANGED tool_cache
           ELSE /\ tools_built' = [key |-> cache_key, tools |-> fresh,
                                   uncached |-> fresh]
                /\ tool_cache' = [tool_cache EXCEPT ![cache_key] =
                                     [cached |-> TRUE, tools |-> fresh]]
        /\ UNCHANGED <<workflows, workflow_files, regVars, notCapVars>>

\* runner.rs, lines 450 and 730: capabilities.skills.get(name).
SkillLookup(name) ==
    /\ observed' = [name |-> name, found |-> name \in skills]
    /\ UNCHANGED <<skills, skill_files, reload, lastOp, notRegVars>>

\* ------------------------------------------------------------------------
\*  FilesystemAdapter (adapter/filesystem.rs)
\*
\*  A requested path is the sequence of its components: "/" is the root
\*  directory, ".." the parent directory, "." the current directory and
\*  any other string a normal component.  The workspace root is a
\*  directory of plain files and of symbolic links that lead to one path
\*  outside the root; a link whose target does not exist is dangling.
\* ------------------------------------------------------------------------

\* The file an entry of the workspace leads to.
Real(n) == IF n \in fs_links THEN OUTSIDE ELSE n

\* Path::exists, which follows symbolic links.
Exists(n) == fs_files[Real(n)] # Nothing

\* get_safe_path, lines 28-40: the normal components are pushed onto the
\* root, the others are ignored.
candidate(requested_path) ==
    SelectSeq(requested_path, LAMBDA c : c \notin {"/", "..", "."})

\* canonicalize_or_create_parent, lines 124-148, for a candidate of at
\* most one component: the nearest existing ancestor is canonicalized and
\* the rest appended.  TRUE when the result starts with the canonical root.
canonical_inside(cand) ==
    \/ cand = <<>>
    \/ ~Exists(cand[1])
    \/ Real(cand[1]) \in WsNames

SECURITY_FAULT == "SECURITY FAULT"

\* get_safe_path, lines 26-57.
get_safe_path(requested_path) ==
    IF \E i \in 1..Len(requested_path) : requested_path[i] = ".."
    THEN [ok |-> FALSE, err |-> SECURITY_FAULT]
    ELSE IF ~canonical_inside(candidate(requested_path))
         THEN [ok |-> FALSE, err |-> SECURITY_FAULT]
         ELSE [ok |-> TRUE, path |-> candidate(requested_path)]

\* What a call returns: Err(err), or Ok(out) after acting on the files
\* acted.
Failed(op, requested_path, err) ==
    [op |-> op, path |-> requested_path, ok |-> FALSE, out |-> err,
     acted |-> {}]

Done(op, requested_path, out, acted) ==
    [op |-> op, path |-> requested_path, ok |-> TRUE, out |-> out,
     acted |-> acted]

\* write_file, lines 59-68.  fs::write follows a symbolic link and
\* creates its target; on the root itself it fails.
write_file(filename, content) ==
    LET p == get_safe_path(filename)
    IN  /\ IF ~p.ok
           THEN /\ fs_result' = Failed("write", filename, p.err)
                /\ UNCHANGED fs_files
           ELSE IF p.path = <<>>
           THEN /\ fs_result' = Failed("write", filename, "is a directory")
                /\ UNCHANGED fs_files
           ELSE /\ fs_files' = [fs_files EXCEPT ![Real(p.path[1])] = content]
                /\ fs_result' = Done("write", filename, content,
                                      {Real(p.path[1])})
        /\ UNCHANGED <<fs_links, notFsVars>>

\* read_file, lines 70-74.
read_file(filename) ==
    LET p == get_safe_path(filename)
    IN  /\ fs_result' =
              IF ~p.ok THEN Failed("read", filename, p.err)
              ELSE IF p.path = <<>>
              THEN Failed("read", filename, "is a directory")
              ELSE IF ~Exists(p.path[1])
              THEN Failed("read", filename, "not found")
              ELSE Done("read", filename, fs_files[Real(p.path[1])],
                        {Real(p.path[1])})
        /\ UNCHANGED <<fs_files, fs_links, notFsVars>>

\* list_files, lines 76-94: the entries of the directory (a set here, the
\* code sorts them); nothing when the path does not exist.
list_files(dir) ==
    LET p == get_safe_path(dir)
    IN  /\ fs_result' =
              IF ~p.ok THEN Failed("list", dir, p.err)
              ELSE IF p.path = <<>>
              THEN Done("list", dir,
                        {n \in WsNames : n \in fs_links
                                            \/ fs_files[n] # Nothing}, {})
              ELSE IF ~Exists(p.path[1])
              THEN Done("list", dir, {}, {})
              ELSE Failed("list", dir, "not a directory")
        /\ UNCHANGED <<fs_files, fs_links, notFsVars>>

\* delete_file, lines 96-104: remove_file for a file, remove_dir_all for
\* a directory (here the root, whose links are removed, not followed),
\* nothing otherwise.
delete_file(filename) ==
    LET p == get_safe_path(filename)
    IN  /\ IF ~p.ok
           THEN /\ fs_result' = Failed("delete", filename, p.err)
                /\ UNCHANGED <<fs_files, fs_links>>
           ELSE IF p.path = <<>>
           THEN /\ fs_files' = [r \in RealPaths |->
                                  IF r \in WsNames THEN Nothing
                                  ELSE fs_files[r]]
                /\ fs_links' = {}
                /\ fs_result' = Done("delete", filename, Nothing,
                                      {n \in WsNames : n \in fs_links
                                          \/ fs_files[n] # Nothing})
           ELSE IF Exists(p.path[1])
           THEN /\ fs_files' = [fs_files EXCEPT ![p.path[1]] = Nothing]
                /\ fs_links' = fs_links \ {p.path[1]}
                /\ fs_result' = Done("delete", filename, Nothing,
                                      {p.path[1]})
           ELSE /\ fs_result' = Done("delete", filename, Nothing, {})
                /\ UNCHANGED <<fs_files, fs_links>>
        /\ UNCHANGED notFsVars

\* handle_dynamic_skill, lines 768-778: the command of a skill runs with
\* the workspace as its current directory; here it creates the symbolic
\* link n to the path outside the workspace.
SkillSymlink(n) ==
    /\ n \notin fs_links
    /\ fs_files[n] = Nothing
    /\ fs_links' = fs_links \cup {n}
    /\ UNCHANGED <<fs_files, fs_result, notFsVars>>

\* ------------------------------------------------------------------------
\*  Specifications
\* ------------------------------------------------------------------------

\* The payload of a plain task: a short message, no overrides.
PlainPayload == [msg_len |-> 5, swarm_depth |-> None, swarm_lineage |-> None,
                 budget_usd |-> None]

SeqsOver(S) == UNION {[1..n -> S] : n \in 0..MaxCalls}

DecideSteps(ds) ==
    \/ \E d \in Deciders, id \in EntryIds, decision \in ds :
          DecideNotFound(d, id, decision)
    \/ \E d \in Deciders, id \in EntryIds, decision \in ds :
          DecideRemove(d, id, decision)
    \/ \E d \in Deciders : DecideResolve(d)
    \/ \E d \in Deciders : DecideLedger(d)

KillSteps ==
    \/ KillHalt
    \/ KillSnapshot
    \/ \E id \in EntryIds : KillRemoveQueue(id)
    \/ KillResolve
    \/ KillFinish

GatedSteps ==
    \/ \E h \in Handlers : HandlerPreHookFail(h)
    \/ \E h \in Handlers : HandlerSubmit(h)
    \/ \E h \in Handlers : HandlerRegister(h)
    \/ \E h \in Handlers, outcome \in ResumeOutcomes : HandlerResume(h, outcome)

FinalizeSteps ==
    \/ RunFinalizeAgent
    \/ RunFinalizeMission

\* Spec: the oversight gate.  One plain task of agent "1" whose provider
\* turn returns any calls of the menu, against any decide requests and
\* kill requests.
GateMenu == {"delete_file", "complete_mission", "fetch_url",
             "issue_alpha_directive"}

Next ==
    \/ RunStart("1", PlainPayload)
    \/ RunActivate
    \/ RunResolve(TRUE)
    \/ \E fcs \in SeqsOver(GateMenu) : RunProviderOk(fcs, None)
    \/ RunCheckBudget
    \/ GatedSteps
    \/ \E h \in Handlers, out \in FetchOutcomes : HandlerFetch(h, out, None)
    \/ \E h \in Handlers, child_ok \in BOOLEAN : HandlerAlpha(h, child_ok)
    \/ FinalizeSteps
    \/ DecideSteps(Decisions)
    \/ KillSteps

Spec == Init /\ [][Next]_vars

\* SpecRun: the life of a mission.  Any task payload, any provider outcome
\* and usage, any calls of the whole menu, decide requests and settings
\* changes.
RunMenu == ToolMenu

NextRun ==
    \/ \E p \in RunPayloads : RunStart("1", p)
    \/ RunActivate
    \/ \E ok \in BOOLEAN : RunResolve(ok)
    \/ \E fcs \in SeqsOver(RunMenu), u \in UsageChoices : RunProviderOk(fcs, u)
    \/ RunProviderErr
    \/ RunCheckBudget
    \/ GatedSteps
    \/ \E h \in Handlers, out \in FetchOutcomes, u \in UsageChoices :
          HandlerFetch(h, out, u)
    \/ \E h \in Handlers, child_ok \in BOOLEAN : HandlerAlpha(h, child_ok)
    \/ FinalizeSteps
    \/ DecideSteps(Decisions)
    \/ \E b \in BOOLEAN : update_settings(b)

SpecRun == Init /\ [][NextRun]_vars

\* SpecKill: the kill switch against the agent routes and a turn of
\* delete_file calls.
NextKill ==
    \/ RunStart("1", PlainPayload)
    \/ RunActivate
    \/ RunResolve(TRUE)
    \/ \E fcs \in SeqsOver({"delete_file"}) : RunProviderOk(fcs, None)
    \/ RunCheckBudget
    \/ GatedSteps
    \/ FinalizeSteps
    \/ KillSteps
    \/ \E a \in AgentIds : resume_agent(a)
    \/ \E a \in AgentIds : pause_agent(a)
    \/ \E a \in AgentIds, status \in AgentStatuses : create_agent(a, status)

SpecKill == Init /\ [][NextKill]_vars

\* SpecValidate: validate_input applied to every input of a bounded set.
Lineages == UNION {[1..n -> AgentIds \cup {OtherAgentId}] : n \in 0..MaxLineage}

ValidateInputs ==
    [agent_id : AgentIds \cup {OtherAgentId},
     payload  : [msg_len       : {5, MAX_TASK_LENGTH, MAX_TASK_LENGTH + 1,
                                  2 * MAX_TASK_LENGTH},
                 swarm_depth   : {None, Some(0), Some(MAX_SWARM_DEPTH - 1),
                                  Some(MAX_SWARM_DEPTH)},
                 swarm_lineage : {None} \cup {Some(l) : l \in Lineages},
                 budget_usd    : {None}]]

InitValidate ==
    /\ InitState
    /\ vIn \in ValidateInputs
    /\ vOut = Nothing
    /\ output_text = PlainText

Validate ==
    /\ vOut = Nothing
    /\ vOut' = validate_input(vIn.agent_id, vIn.payload)
    /\ UNCHANGED <<vIn, gateVars, decVars, killVars, agentVars,
                   auto_approve_safe_skills, runVars, swarmVars, libVars>>

SpecValidate == InitValidate /\ [][Validate]_vars

\* SpecSwarm: chains of nested runs sharing findings.
NextSwarm ==
    \/ \E p \in SwarmPayloads : SwarmTask(p)
    \/ \E sub_agent_id \in SwarmAgentIds : SwarmSpawn(sub_agent_id)
    \/ SwarmAlpha
    \/ \E i \in 1..(MAX_SWARM_DEPTH + 1), now \in 0..MaxTicks : SwarmShare(i, now)
    \/ SwarmReturn
    \/ SwarmUnwind

SpecSwarm == Init /\ [][NextSwarm]_vars

\* The limits a model is configured with, the estimates acquire is called
\* with (512 by call_provider, 256 by call_provider_for_synthesis) and the
\* total_tokens a provider call reports.
RpmChoices == {None, Some(1), Some(2)}

TpmChoices == {None, Some(300), Some(1000)}

Estimates == {256, 512}

TokenCounts == {600}

LimiterSteps ==
    \/ \E c \in Callers : AcquireWake(c)
    \/ \E c \in Callers : PermitTimer(c)
    \/ \E c \in Callers, actual \in TokenCounts : RecordUsage(c, actual)
    \/ LimTick

\* SpecLimiter: one RateLimiter and its concurrent callers.
NextLimiter ==
    \/ \E rpm \in RpmChoices, tpm \in TpmChoices : LimiterNew(rpm, tpm)
    \/ \E c \in Callers, est \in Estimates : AcquireCall(c, est)
    \/ \E c \in Callers : AcquireGranted(c)
    \/ LimiterSteps

SpecLimiter == Init /\ [][NextLimiter]_vars

\* SpecAcquire: the shared RateLimiter under a clock that never stops.
\* Time advances, a sleep that is over ends, a permit timer that is due
\* fires, and the semaphore serves a waiter whenever a permit is free.
NextAcquire ==
    \/ \E rpm \in RpmChoices, tpm \in TpmChoices : LimiterNew(rpm, tpm)
    \/ \E c \in Callers, est \in Estimates : AcquireCall(c, est)
    \/ \E c \in Callers : AcquireGranted(c)
    \/ \E c \in Callers : AcquireWake(c)
    \/ \E c \in Callers : PermitTimer(c)
    \/ \E c \in Callers, actual \in TokenCounts : RecordUsage(c, actual)
    \/ LimTickForever

SpecAcquire ==
    /\ Init
    /\ [][NextAcquire]_vars
    /\ WF_vars(LimTickForever)
    /\ \A c \in Callers : /\ WF_vars(AcquireWake(c))
                           /\ WF_vars(PermitTimer(c))
                           /\ SF_vars(AcquireGranted(c))

\* SpecThrottle: the provider calls of the runner.  Every call has a
\* limiter of its own, so no call ever waits in a semaphore's queue.
NextThrottle ==
    \/ \E c \in Callers, rpm \in RpmChoices, tpm \in TpmChoices,
          est \in Estimates : CallProvider(c, rpm, tpm, est)
    \/ LimiterSteps

SpecThrottle == Init /\ [][NextThrottle]_vars

\* SpecFinalize: a plain task whose provider turn answers with a text and
\* no function call.
NextFinalize ==
    \/ RunStart("1", PlainPayload)
    \/ RunActivate
    \/ RunResolve(TRUE)
    \/ \E u \in UsageChoices : RunProviderOk(<<>>, u)
    \/ RunCheckBudget
    \/ FinalizeSteps

SpecFinalize == InitFinalize /\ [][NextFinalize]_vars

\* SpecSkills: the skills of the registry, saved, deleted, rebuilt from
\* disk and looked up.
NextSkills ==
    \/ \E name \in SkillNames : save_skill(name)
    \/ \E name \in SkillNames : delete_skill(name)
    \/ ReloadRead
    \/ ReloadClear
    \/ \E k \in SkillNames : ReloadInsert(k)
    \/ ReloadReturn
    \/ \E name \in SkillNames : SkillLookup(name)

SpecSkills == Init /\ [][NextSkills]_vars

\* The paths and contents the tools of the runner hand to the adapter.
RequestedPaths == {<<"f">>, <<"l">>, <<>>, <<"/", "f">>, <<".", "f">>,
                   <<"..", "f">>, <<"f", "..", "l">>}

Contents == {"c1", "c2"}

\* SpecFs: the calls of one FilesystemAdapter on a workspace in which the
\* commands of skills create symbolic links.
NextFs ==
    \/ \E filename \in RequestedPaths, content \in Contents :
          write_file(filename, content)
    \/ \E filename \in RequestedPaths : read_file(filename)
    \/ \E dir \in RequestedPaths : list_files(dir)
    \/ \E filename \in RequestedPaths : delete_file(filename)
    \/ \E n \in {"l"} : SkillSymlink(n)

SpecFs == Init /\ [][NextFs]_vars

\* SpecDecide: the gated calls of one task against decide requests for
\* any id, whose queue lookups are kept, and kill requests.
NextDecide ==
    \/ RunStart("1", PlainPayload)
    \/ RunActivate
    \/ RunResolve(TRUE)
    \/ \E fcs \in SeqsOver({"delete_file", "complete_mission"}) :
          RunProviderOk(fcs, None)
    \/ RunCheckBudget
    \/ GatedSteps
    \/ FinalizeSteps
    \/ \E d \in Deciders, id \in EntryIds :
          decide_oversight(d, id, "approved")
    \/ \E d \in Deciders : DecideResolve(d)
    \/ \E d \in Deciders : DecideLedger(d)
    \/ KillSteps

SpecDecide == Init /\ [][NextDecide]_vars

\* SpecCaps: the registry with its workflows, and the runs that build
\* their tool definitions from it.
NextCaps ==
    \/ \E name \in CapNames : save_skill(name)
    \/ \E name \in CapNames : delete_skill(name)
    \/ \E name \in CapNames : save_workflow(name)
    \/ \E name \in CapNames : delete_workflow(name)
    \/ ReloadRead
    \/ ReloadClear
    \/ \E k \in SkillNames : ReloadInsert(k)
    \/ ReloadReturn
    \/ \E ctx_skills \in CtxSkills, safe_mode \in BOOLEAN :
          build_tools(ctx_skills, safe_mode)

SpecCaps == Init /\ [][NextCaps]_vars

\* SpecSpawn: a plain task whose provider turn answers with a text and
\* spawn_subagent calls.
NextSpawn ==
    \/ RunStart("1", PlainPayload)
    \/ RunActivate
    \/ RunResolve(TRUE)
    \/ \E n \in 1..MaxCalls, u \in UsageChoices :
          RunProviderOk([i \in 1..n |-> "spawn_subagent"], u)
    \/ RunCheckBudget
    \/ \E h \in Handlers, out \in SpawnOutcomes, child_u, u \in UsageChoices :
          HandlerSpawn(h, out, child_u, u)
    \/ FinalizeSteps

SpecSpawn == Init /\ [][NextSpawn]_vars

\* SpecLedger: a long stream of entries, each submitted and then decided.
NextLedger ==
    \/ LedgerSubmit
    \/ \E d \in Deciders, id \in 1..MaxDecisions :
          \E decision \in DecisionsFor(id) : DecideRemove(d, id, decision)
    \/ \E d \in Deciders : DecideResolve(d)
    \/ \E d \in Deciders : DecideLedger(d)

SpecLedger == Init /\ [][NextLedger]_vars

\* ------------------------------------------------------------------------
\*  Properties
\* ------------------------------------------------------------------------

\* No handler is between its two inserts, and no decide or kill request is
\* between its two removes.
Quiescent ==
    /\ NoSync
    /\ killPc = "idle"
    /\ \A d \in Deciders : dec[d].pc = "idle"

\* C1: whenever no request is in the middle of its map operations, the ids
\* of the pending queue are the ids of the resolver map, every resolver's
\* receiver is still awaited by its handler, and no decided entry (one
\* that reached the ledger) is in either map.
C1_QueueMatchesResolvers ==
    Quiescent =>
        /\ oversight_queue = oversight_resolvers
        /\ \A id \in oversight_resolvers : chan[id] = "open" /\ hpc[id] = "await"
        /\ \A i \in 1..Len(oversight_ledger) :
              oversight_ledger[i].id \notin oversight_queue \cup oversight_resolvers

\* C2: submit_oversight returns only after a value was delivered on its
\* own channel, it returns a boolean, and that boolean is true exactly
\* when the delivery came from a decide request whose decision was
\* "approved" (false for "rejected", any other string, and a kill).
C2_ReturnsIffApproved ==
    \A h \in Handlers :
        result[h].some =>
            /\ approvedBy[h] # Nothing
            /\ result[h].v \in BOOLEAN
            /\ result[h].v = (approvedBy[h] = "approved")

\* C2, witness: one turn in which one submit_oversight call returned true
\* and another returned false after a decision that was neither
\* "approved" nor "rejected".
C2_Witness ==
    \E h, g \in Handlers :
        /\ result[h] = Some(TRUE)
        /\ result[g] = Some(FALSE)
        /\ approvedBy[g] = "other"

\* A submitted call nobody can resolve any more: its queue entry is gone
\* and no decide or kill request holds its id.
Stranded(h) ==
    /\ \/ hpc[h] = "q_inserted"
       \/ hpc[h] = "await" /\ chan[h] = "open"
    /\ h \notin oversight_queue
    /\ ~(killPc \in {"clear", "resolve"} /\ (h \in pending_ids \/ killRemoved = h))
    /\ \A d \in Deciders : ~(dec[d].pc = "resolve" /\ dec[d].id = h)

\* A stranded call stays stranded unless its whole turn is cancelled.
StrandedForever ==
    [][\A h \in Handlers :
          Stranded(h) => (Stranded(h)' \/ hpc'[h] = "cancelled")]_vars

\* No decide request has named the entry of handler h.
Undecided(h) ==
    /\ \A d \in Deciders : dec[d].pc = "idle" \/ dec[d].id # h
    /\ \A i \in 1..Len(oversight_ledger) : oversight_ledger[i].id # h

\* C3: when kill_agents completes, no submit call that had started when
\* the kill began, and whose entry no decide request has named, is left
\* waiting for a delivery that can never come.
C3_KillReleasesWaiters ==
    [][(killPc = "clear" /\ killPc' = "idle") =>
          \A h \in killPre.started : Undecided(h) => ~Stranded(h)']_vars

\* C4: in the state kill_agents completes in, neither the pending queue
\* nor the resolver map holds an entry whose submit had started when the
\* kill began, and, if no agent route was served meanwhile, every agent is
\* idle and active_mission is cleared for every agent that was not idle
\* when the kill began.
C4_KillLeavesNothingPending ==
    [][(killPc = "clear" /\ killPc' = "idle") =>
          /\ \A h \in killPre.started :
                h \notin oversight_queue' \cup oversight_resolvers'
          /\ routeOps' = killPre.routeOps =>
                /\ \A a \in AgentIds : agents'[a].status = "idle"
                /\ \A a \in killPre.nonIdle : ~agents'[a].active_mission]_vars

C6_MissionLifecycle ==
    /\ providerCalls > 0 => mission.status # "pending"
    /\ (rpc = "returned" /\ mission.status # Nothing) =>
           mission.status \in {"completed", "failed", "paused"}

\* C7: no step lowers the persisted cost_usd of the mission.
C7_CostMonotone == [][mission'.cost_usd >= mission.cost_usd]_vars

\* C7, witness: a mission whose complete_mission call was approved and
\* whose cost was then raised by finalize_run.
C7_Witness ==
    /\ mission.cost_usd > 0
    /\ effects # {}
    /\ rpc = "returned"

\* C8: once a provider call of the run has failed, the agent is idle, the
\* mission is failed, an error step is logged and run has returned that
\* error.
C8_ProviderFailureHandled ==
    failedCall # Nothing =>
        /\ agents[agent_id].status = "idle"
        /\ mission.status = "failed"
        /\ \E i \in 1..Len(mission_logs) : mission_logs[i].severity = "error"
        /\ retval = Return("Err", "provider")

\* C9: the budget check pauses the mission, logs the Finance Analyst
\* warning, dispatches nothing and returns the PAUSED output exactly when
\* the stored cost plus the cost of the step is at least the budget;
\* otherwise the run goes on to the tool dispatch with the mission as it
\* was.
C9_BudgetGate ==
    [][(rpc = "check_budget" /\ rpc' # "check_budget") =>
          IF mission.cost_usd + step_cost >= mission.budget_usd
          THEN /\ mission'.status = "paused"
               /\ mission_logs' = Append(mission_logs,
                                         [source   |-> "Finance Analyst",
                                          severity |-> "warning"])
               /\ \A h \in Handlers : hpc'[h] = "unused"
               /\ retval' = Return("Ok", "(PAUSED: Budget Exceeded)")
          ELSE /\ rpc' \in {"dispatch", "finalize"}
               /\ mission' = mission]_vars

ValidatedLineage == unwrap_or(vIn.payload.swarm_lineage, <<>>)

\* C10 as stated: validation of an agent that is in its lineage fails with
\* CIRCULAR RECURSION, and validation of an agent that is not in its
\* lineage succeeds when the length and depth checks pass.
C10_CircularAlwaysNamed ==
    vOut # Nothing =>
        /\ InLineage(vIn.agent_id, ValidatedLineage) => vOut = "CIRCULAR RECURSION"
        /\ (/\ ~InLineage(vIn.agent_id, ValidatedLineage)
            /\ vIn.payload.msg_len <= MAX_TASK_LENGTH
            /\ unwrap_or(vIn.payload.swarm_depth, 0) < MAX_SWARM_DEPTH) =>
               vOut = "ok"

\* C10, amended: validation of an agent that is in its lineage always
\* fails, with CIRCULAR RECURSION when the message is not too long and
\* with the length error otherwise; validation of an agent that is not in
\* its lineage succeeds when the length and depth checks pass.
C10_CircularRejected ==
    vOut # Nothing =>
        /\ InLineage(vIn.agent_id, ValidatedLineage) =>
              /\ vOut # "ok"
              /\ vOut = IF vIn.payload.msg_len <= MAX_TASK_LENGTH
                        THEN "CIRCULAR RECURSION" ELSE "too long"
        /\ (/\ ~InLineage(vIn.agent_id, ValidatedLineage)
            /\ vIn.payload.msg_len <= MAX_TASK_LENGTH
            /\ unwrap_or(vIn.payload.swarm_depth, 0) < MAX_SWARM_DEPTH) =>
               vOut = "ok"

\* C10, witness: an agent found at the end of a lineage of the greatest
\* length drawn, at a depth that would itself be refused.
C10_Witness ==
    /\ vOut = "CIRCULAR RECURSION"
    /\ Len(ValidatedLineage) = MaxLineage
    /\ ValidatedLineage[MaxLineage] = vIn.agent_id
    /\ ValidatedLineage[1] # vIn.agent_id
    /\ unwrap_or(vIn.payload.swarm_depth, 0) >= MAX_SWARM_DEPTH

\* C12: with the agent outside its lineage and the depth below the limit,
\* validate_input accepts every message of at most 32768 bytes, that
\* length included, and refuses every longer one, 32769 included, with the
\* length error.
C12_LengthBoundary ==
    (/\ vOut # Nothing
     /\ ~InLineage(vIn.agent_id, ValidatedLineage)
     /\ unwrap_or(vIn.payload.swarm_depth, 0) < MAX_SWARM_DEPTH) =>
        vOut = IF vIn.payload.msg_len <= 32768 THEN "ok" ELSE "too long"

\* C12, witness: a message of exactly 32768 bytes was accepted.
C12_Witness ==
    /\ vOut = "ok"
    /\ vIn.payload.msg_len = 32768

\* The payload fails one of the three checks of validate_input for agent a.
Refused(a, p) ==
    \/ p.msg_len > 32768
    \/ InLineage(a, unwrap_or(p.swarm_lineage, <<>>))
    \/ unwrap_or(p.swarm_depth, 0) >= 5

\* C14: a run called with a payload that validation refuses returns Err at
\* once and leaves the mission row, the mission's steps, the agents, the
\* oversight queue, the resolver map and the count of provider calls as
\* they were.
C14_RefusalChangesNothing ==
    [][(rpc = "idle" /\ rpc' # "idle" /\ Refused(agent_id', payload')) =>
          /\ rpc' = "returned"
          /\ retval'.kind = "Err"
          /\ UNCHANGED <<mission, mission_logs, agents, oversight_queue,
                         oversight_resolvers, providerCalls>>]_vars

\* C14, witness: a run refused for its depth has returned, and no mission
\* exists.
C14_Witness ==
    /\ rpc = "returned"
    /\ retval = Return("Err", "depth limit")
    /\ mission = NoMission
    /\ mission_logs = <<>>

\* Handler h asked for complete_mission and its request was rejected.
CompletionRejected(h) ==
    /\ h \in DOMAIN calls
    /\ calls[h] = "complete_mission"
    /\ result[h] = Some(FALSE)

\* C16: when a complete_mission request of the run was rejected and none
\* was approved, the mission is not completed, neither after the handler
\* nor after the run has returned.
C16_RejectionLeavesActive ==
    (/\ \E h \in Handlers : CompletionRejected(h)
     /\ \A h \in DOMAIN calls : calls[h] = "complete_mission" =>
                                    result[h] # Some(TRUE)) =>
        mission.status # "completed"

\* C19: a run that has returned Ok left no handler of its last turn
\* unfinished: none was dropped while it was still pending.
C19_AwaitsAllHandlers ==
    (rpc = "returned" /\ retval.kind = "Ok") =>
        \A h \in Handlers : hpc[h] # "cancelled"

\* C20: no run returns Err because a tool's own execution failed (a vault
\* append error, a webhook error, a failed sub-agent run): such a failure
\* is a marker in the output and the run goes on to finalize.
C20_ToolFailureCaptured ==
    ~(/\ rpc = "returned"
      /\ retval.kind = "Err"
      /\ retval.what \in {"tool failed", "child run failed"})

\* C11: every run in flight has a depth equal to the length of its
\* lineage, and a depth of at most 5.
C11_DepthIsLineageLength ==
    \A i \in DOMAIN frames :
        /\ frames[i].depth = Len(frames[i].lineage)
        /\ frames[i].depth <= 5

\* C13: every run in flight was accepted at a depth of at most 4; a call
\* of run whose message and lineage pass is accepted at depths up to 4 and
\* refused with the depth-limit error from depth 5 on; a chain whose root
\* run has depth 0 never holds more than 5 runs.
C13_DepthLimit ==
    /\ \A i \in DOMAIN frames : frames[i].depth <= 4
    /\ (/\ lastStart.by # Nothing
        /\ lastStart.payload.msg_len <= 32768
        /\ ~InLineage(lastStart.agent_id,
                      unwrap_or(lastStart.payload.swarm_lineage, <<>>))) =>
           lastStart.outcome =
               IF unwrap_or(lastStart.payload.swarm_depth, 0) <= 4
               THEN "ok" ELSE "depth limit"
    /\ (frames # <<>> /\ frames[1].depth = 0) => Len(frames) <= 5

\* C13, witness: five runs are nested under a root run of depth 0 and the
\* innermost one's spawn_subagent has just been refused for its depth.
C13_Witness ==
    /\ Len(frames) = 5
    /\ frames[1].depth = 0
    /\ frames[5].depth = 4
    /\ lastStart.by = "spawn_subagent"
    /\ lastStart.outcome = "depth limit"

\* C15: the child run of a nested run works under its parent's mission id,
\* one level deeper, with the parent's lineage followed by the parent's
\* agent id, and in the parent's safe mode.
C15_ChildInheritsMission ==
    \A i \in DOMAIN frames : i > 1 =>
        /\ frames[i].mission_id = frames[i - 1].mission_id
        /\ frames[i].depth = frames[i - 1].depth + 1
        /\ frames[i].lineage = Append(frames[i - 1].lineage,
                                      frames[i - 1].agent_id)
        /\ frames[i].safe_mode = frames[i - 1].safe_mode

\* The findings shared under mission id m.
FindingsOf(m) ==
    {swarm_context[i].finding :
        i \in {k \in DOMAIN swarm_context : swarm_context[k].mission_id = m}}

\* C17: whatever findings the missions have shared, the swarm context read
\* for a mission id holds exactly the findings shared under that id, each
\* once, and the prompt of every run in flight holds findings of its own
\* mission only.
C17_ContextIsolated ==
    /\ \A m \in 1..(missions + 1) :
          /\ get_mission_context(swarm_context, m) # {}
          /\ \A text \in get_mission_context(swarm_context, m) :
                /\ {text[j].finding : j \in DOMAIN text} = FindingsOf(m)
                /\ Len(text) = Cardinality(FindingsOf(m))
    /\ \A i \in DOMAIN frames :
          \A j \in DOMAIN frames[i].prompt :
              frames[i].prompt[j].finding \in FindingsOf(frames[i].mission_id)

\* C17, witness: two missions in flight have each shared a finding.
C17_Witness ==
    /\ Len(frames) >= 2
    /\ FindingsOf(frames[1].mission_id) # {}
    /\ FindingsOf(frames[2].mission_id) # {}
    /\ frames[1].mission_id # frames[2].mission_id

\* C18: every finding that a run shared before one of its descendants
\* started is in the prompt of that descendant.
C18_DescendantSeesFindings ==
    \A i, j \in DOMAIN frames : i < j =>
        \A k \in 1..frames[j].rows_before :
            swarm_context[k].mission_id = frames[i].mission_id =>
                \E n \in DOMAIN frames[j].prompt :
                    frames[j].prompt[n].finding = swarm_context[k].finding

\* C21: a failed hook script fails its own tool call only: the run does
\* not return the hook's error, and no sibling handler of the turn is
\* dropped before it has finished.
C21_HookFailureIsLocal ==
    (\E h \in Handlers : hpc[h] = "failed") =>
        /\ ~(rpc = "returned" /\ retval = Return("Err", "Hook script failed"))
        /\ (retval.what = "Hook script failed" =>
               \A h \in Handlers : hpc[h] # "cancelled")

\* Caller c has completed an acquire that took a permit.
TookPermit(c) ==
    /\ callers[c].pc \in {"acquired", "recorded"}
    /\ callers[c].timer # Nothing

\* The acquires completed on limiter l in the 60 s that end with caller c's.
AcquiredInWindow(l, c) ==
    {d \in Callers : /\ TookPermit(d)
                     /\ callers[d].l = l
                     /\ callers[d].at <= callers[c].at
                     /\ callers[d].at > callers[c].at - 60}

\* C22: on a limiter with rpm = N, no 60-second interval holds more than N
\* completed acquires; every permit is either free or held by an acquire
\* whose timer has not fired yet, so a caller finding no permit waits for
\* a timer.
C22_RpmWindow ==
    LET lim == limiter[SharedLimiter]
    IN  lim.rpm.some =>
          /\ \A c \in Callers : TookPermit(c) =>
                Cardinality(AcquiredInWindow(SharedLimiter, c)) <= lim.rpm.v
          /\ lim.permits >= 0
          /\ lim.permits
               + Cardinality({c \in Callers : callers[c].timer = "armed"})
               = lim.rpm.v

\* C22, witness: with one permit, the second of two acquires has completed
\* 60 s after the first.
C22_Witness ==
    /\ limiter[SharedLimiter].rpm = Some(1)
    /\ TookPermit(1)
    /\ TookPermit(2)
    /\ callers[2].at = callers[1].at + 60

\* C23: is_active is true exactly when rpm or tpm is set, and on a limiter
\* with neither set no acquire is ever suspended, whatever usage has been
\* recorded.
C23_InactiveNeverSuspends ==
    /\ \A l \in LimiterIds :
          is_active(limiter[l]) <=>
              (limiter[l].rpm # None \/ limiter[l].tpm # None)
    /\ (/\ limiter[SharedLimiter].rpm = None
        /\ limiter[SharedLimiter].tpm = None) =>
           \A c \in Callers : callers[c].pc \in {"idle", "acquired", "recorded"}

\* C23, witness: on a limiter without limits, an acquire has completed
\* after another caller recorded its usage.
C23_Witness ==
    /\ limiter[SharedLimiter].built
    /\ ~is_active(limiter[SharedLimiter])
    /\ callers[1].pc = "recorded"
    /\ limiter[SharedLimiter].tokens_used = 600
    /\ callers[2].pc = "acquired"
    /\ callers[2].at > callers[1].rec_at

\* Provider call c has started.
ProviderCallStarted(c) ==
    /\ callers[c].via = "call_provider"
    /\ callers[c].pc \in {"acquired", "recorded"}

\* Calls c and d are for a model with the same limits.
SameModel(c, d) ==
    /\ limiter[c].rpm = limiter[d].rpm
    /\ limiter[c].tpm = limiter[d].tpm

RECURSIVE TokensOf(_)
TokensOf(S) ==
    IF S = {} THEN 0
    ELSE LET c == CHOOSE x \in S : TRUE
         IN  callers[c].tokens + TokensOf(S \ {c})

\* C24: for a model with rpm = N, no 60-second window holds more than N
\* provider calls started; for a model with tpm = T, no 60-second window
\* holds more than T tokens recorded.
C24_ModelThrottled ==
    \A c \in Callers : ProviderCallStarted(c) =>
        /\ limiter[c].rpm.some =>
              Cardinality({d \in Callers :
                              /\ ProviderCallStarted(d)
                              /\ SameModel(c, d)
                              /\ callers[d].at <= callers[c].at
                              /\ callers[d].at > callers[c].at - 60})
                  <= limiter[c].rpm.v
        /\ (limiter[c].tpm.some /\ callers[c].pc = "recorded") =>
              TokensOf({d \in Callers :
                           /\ callers[d].pc = "recorded"
                           /\ callers[d].via = "call_provider"
                           /\ SameModel(c, d)
                           /\ callers[d].rec_at <= callers[c].rec_at
                           /\ callers[d].rec_at > callers[c].rec_at - 60})
                  <= limiter[c].tpm.v

\* The decide_oversight calls that have returned 200: every entry submitted
\* is pending, in the hands of a decide request, or decided.
DecidedCount ==
    submitted - Cardinality(oversight_queue)
              - Cardinality({d \in Deciders : dec[d].pc # "idle"})

Min(a, b) == IF a <= b THEN a ELSE b

\* C25: after n successful decide_oversight calls the ledger holds the
\* min(n, 200) most recent decisions, newest first: its length is
\* min(n, 200), never above 200, and every decision puts its entry at
\* position 0 in front of the entries that were there, the oldest one
\* dropping out when the ledger is full.
C25_LedgerNewestFirst ==
    /\ [](Len(oversight_ledger) = Min(DecidedCount, LEDGER_CAP))
    /\ [][\A d \in Deciders :
            (dec[d].pc = "ledger" /\ dec'[d].pc = "idle") =>
               /\ oversight_ledger'[1].id = dec[d].id
               /\ oversight_ledger'[1].decision = dec[d].decision
               /\ Len(oversight_ledger') <= LEDGER_CAP
               /\ \A i \in 2..Len(oversight_ledger') :
                     oversight_ledger'[i] = oversight_ledger[i - 1]]_vars

\* More than 200 decisions were made and the ledger is full.
C25_Witness ==
    /\ DecidedCount > LEDGER_CAP
    /\ Len(oversight_ledger) = LEDGER_CAP
    /\ oversight_ledger[1].id = DecidedCount

\* The positions of the characters of the output text that are not
\* whitespace.
Inked == {i \in 1..Len(output_text) : ~is_whitespace(output_text[i])}

\* C26: finalize_run returns the output text without its leading and
\* trailing whitespace, that is the text from its first to its last
\* character that is not whitespace, and the fallback sentence when no
\* such character exists; the mission is then completed and the agent idle.
C26_FinalDelivery ==
    (rpc = "returned" /\ retval.kind = "Ok") =>
       /\ retval.what =
             IF Inked = {} THEN FALLBACK_DELIVERY
             ELSE to_string(SubSeq(output_text,
                                   CHOOSE i \in Inked : \A j \in Inked : i <= j,
                                   CHOOSE i \in Inked : \A j \in Inked : i >= j))
       /\ mission.status = "completed"
       /\ agents[agent_id].status = "idle"

\* A run has returned a text trimmed on both sides with a space inside.
C26_Witness ==
    /\ rpc = "returned"
    /\ output_text = <<" ", "a", "\n">>
    /\ retval = Return("Ok", "a")

\* C27: after save_skill the original name is a key of the skills map, and
\* it still is after the registry is rebuilt from disk; after delete_skill
\* it is absent, in memory and after a rebuild.
C27_NameSurvivesRebuild ==
    reload.pc = "idle" =>
       /\ lastOp.op = "save" => lastOp.name \in skills
       /\ lastOp.op = "delete" => lastOp.name \notin skills

\* C28: a lookup made while reload_all runs finds what the map before the
\* reload or the map after it holds: a skill of both maps is found, a
\* skill of neither is not.
C28_ReloadAtomic ==
    [][\A name \in SkillNames :
          (reload.pc # "idle" /\ observed' # observed
             /\ observed'.name = name) =>
             \/ observed'.found = (name \in reload.pre)
             \/ observed'.found = (name \in reload.new_skills)]_vars

\* C29: every call of the adapter fails or acts inside the workspace
\* root: a requested path with a ".." component fails with SECURITY FAULT
\* and touches no file, and an absolute path acts under the root.
C29_StaysInsideRoot ==
    /\ fs_result.ok => fs_result.acted \subseteq WsNames
    /\ (\E i \in 1..Len(fs_result.path) : fs_result.path[i] = "..") =>
          /\ ~fs_result.ok
          /\ fs_result.out = SECURITY_FAULT
          /\ fs_result.acted = {}

\* C30: a read_file that follows a successful write_file of the same
\* filename returns the content written, a list_files of its directory
\* that follows it names the file, and a read_file that follows a
\* delete_file of the same filename fails.
C30_WriteReadDelete ==
    [][/\ (fs_result.op = "write" /\ fs_result.ok
            /\ fs_result'.op = "read" /\ fs_result'.path = fs_result.path) =>
              (fs_result'.ok /\ fs_result'.out = fs_result.out)
       /\ (fs_result.op = "write" /\ fs_result.ok
            /\ fs_result'.op = "list" /\ candidate(fs_result'.path) = <<>>) =>
              (fs_result'.ok /\ candidate(fs_result.path)[1] \in fs_result'.out)
       /\ (fs_result.op = "delete"
            /\ fs_result'.op = "read" /\ fs_result'.path = fs_result.path) =>
              ~fs_result'.ok]_vars

\* C31: every acquire call on an active limiter that suspends its caller,
\* in the TPM sleep or in the semaphore's queue, eventually returns.
C31_AcquireReturns ==
    \A c \in Callers :
        (callers[c].pc \in {"sleep", "rpm_wait"})
           ~> (callers[c].pc \in {"acquired", "recorded"})

\* C32: on a limiter with TPM limit T, acquire(e) returns, inside the
\* current window, only when tokens_used + e <= T.
C32_ReturnsUnderTpm ==
    [][\A c \in Callers :
          LET lim == limiter'[callers'[c].l]
          IN  (/\ callers[c].pc \in {"idle", "sleep", "rpm_wait"}
               /\ callers'[c].pc = "acquired"
               /\ lim.tpm.some
               /\ time_now' - lim.window_start < WINDOW_SECS) =>
                 lim.tokens_used + callers'[c].est <= lim.tpm.v]_vars

\* C33: the cumulative usage of a run grows, with every spawn_subagent
\* call it collects, by the usage of the synthesis call and by the usage
\* of the sub-mission, so that finalize_run receives the sum of the
\* primary generation, the synthesis calls and the sub-missions.
C33_UsageIncludesSubMissions ==
    [][\A h \in Handlers :
          (hpc[h] = "start" /\ hpc'[h] = "done"
             /\ spawned'[h].outcome = "synthesized") =>
             usage' = accumulate_usage(
                         accumulate_usage(usage, spawned'[h].synthesis_usage),
                         spawned'[h].child_usage)]_vars

\* The statuses a mission ends in.
TerminalStatuses == {"completed", "failed", "paused"}

StepsOf(source) ==
    {i \in DOMAIN mission_logs : mission_logs[i].source = source}

\* The System "is thinking" step is in the log.
Thinking == Len(mission_logs) >= 2 /\ mission_logs[2].severity = "info"

\* A handler of the turn acts only after the "is thinking" step and
\* before the Agent step.
ToolEventStep ==
    (hpc' # hpc \/ effects' # effects) =>
        Thinking /\ StepsOf("Agent") = {}

\* The steps of the log are in their places.
LogInOrder ==
    /\ StepsOf("User") \subseteq {1}
    /\ mission_logs # <<>> =>
          /\ mission_logs[1].source = "User"
          /\ mission_logs[1].text = payload.msg_len
    /\ Len(mission_logs) >= 2 => mission_logs[2].source = "System"
    /\ \A i \in StepsOf("Agent") :
          /\ i = Len(mission_logs) /\ i >= 3
          /\ mission_logs[i].severity = "success"
          /\ \A h \in Handlers : Finished(hpc[h])
    /\ (\/ StepsOf("Finance Analyst") # {}
        \/ \E i \in DOMAIN mission_logs : mission_logs[i].severity = "error"
        \/ mission.status \in {"paused", "failed"}) =>
          StepsOf("Agent") = {}

\* C35: the log of a mission starts with the User step, which carries the
\* message of the task as it was sent, followed by the System "is
\* thinking" step; the handlers of the turn act after these two and
\* before the Agent success step, which is the last step; a mission that
\* was paused or failed has no Agent step.
C35_StepsInOrder == []LogInOrder /\ [][ToolEventStep]_vars

\* The Agent step closes the log of a run whose two handlers acted.
C35_Witness ==
    /\ StepsOf("Agent") = {Len(mission_logs)}
    /\ Len(calls) = MaxCalls
    /\ effects # {}

\* C36: when the text of the parent's primary generation is not empty,
\* the message handed to the child run carries it as the strategic intent,
\* and the text of the synthesis call is the handler's output.
C36_IntentHandedToChild ==
    \A h \in Handlers :
        (spawned[h].outcome # Nothing /\ output_text # <<>>) =>
           /\ spawned[h].intent = output_text
           /\ spawned[h].outcome = "synthesized" =>
                 spawned[h].output = "synthesis"

\* C37: in a run in safe mode no handler of a tool the run was stripped
\* of is executed: the run starts no child run by spawn_subagent or by
\* issue_alpha_directive, neither of which is among the definitions
\* offered to the provider.
C37_SafeModeStripsTools ==
    [][(frames # <<>> /\ Top.safe_mode /\ lastStart' # lastStart) =>
          /\ lastStart'.by \notin blacklisted_skills
          /\ lastStart'.by \notin
                {"spawn_subagent"} \ core_declarations(Top.safe_mode)]_vars

\* C38: build_tools returns the definitions that a construction without
\* the cache gives from the registry as it is at the call.
C38_CacheTransparent == tools_built.tools = tools_built.uncached

\* C39: reload_all leaves the keys of the skills map and of the workflows
\* map as they were before it, whatever save and delete calls came before.
C39_ReloadKeepsKeys ==
    [][(reload.pc = "inserting" /\ reload'.pc = "idle") =>
          /\ skills' = reload.pre
          /\ workflows' = workflows]_vars

\* A request answered Not Found leaves the gate and the deciders alone.
NotFoundStep ==
    (decide_status'.status = "Not Found" /\ decide_status' # decide_status) =>
       UNCHANGED <<gateVars, decVars>>

\* A request goes on with an entry it took out of the queue.
GoesOnStep ==
    \A d \in Deciders :
        (dec[d].pc = "idle" /\ dec'[d].pc = "resolve") =>
           /\ dec'[d].id \in oversight_queue
           /\ dec'[d].id \notin oversight_queue'

\* A record of the ledger is the record of a request that went on.
RecordStep ==
    oversight_ledger' # oversight_ledger =>
       \E d \in Deciders :
          /\ dec[d].pc = "ledger"
          /\ oversight_ledger'[1].id = dec[d].id

\* C40: a decide request for an id that is not in the pending queue is
\* answered Not Found and changes neither the queue, nor the resolvers,
\* nor the ledger, nor a channel; a request goes on only with an entry it
\* took out of the queue, and no entry has two records in the ledger.
C40_NotFoundChangesNothing ==
    /\ [](\A i, j \in DOMAIN oversight_ledger :
             oversight_ledger[i].id = oversight_ledger[j].id => i = j)
    /\ [][NotFoundStep /\ GoesOnStep /\ RecordStep]_vars

\* A second request for an entry that has its record in the ledger was
\* answered Not Found.
C40_Witness ==
    /\ decide_status.status = "Not Found"
    /\ decide_status.id \notin oversight_queue
    /\ \E i \in DOMAIN oversight_ledger :
          oversight_ledger[i].id = decide_status.id

====
